---- MODULE Spec2Model ----
(***************************************************************************)
(* Model of the mail-summarizer web application: the user table and the    *)
(* admin console (services/user_service.py, dependencies.py), the JSON     *)
(* routes of main.py, and the conversation / form service                  *)
(* (services/conversation_service.py) on top of a relational store with    *)
(* the unique constraints of models.py.                                    *)
(*                                                                         *)
(* Text is a sequence of one-character strings.  A request is issued by a  *)
(* browser client that owns one signed session cookie; a request that      *)
(* calls the LLM service is in flight between its first database read and  *)
(* the answer of the LLM service, so two such requests can overlap.        *)
(***************************************************************************)
EXTENDS Integers, Sequences, FiniteSets, TLC

(* ------------------------------ bounds --------------------------------- *)
\* user rows ever inserted (ids come from a sequence and are never reused)
MaxUsers == 2
\* conversation rows ever inserted
MaxConvs == 2
\* email rows ever inserted
MaxEmails == 2
\* chat threads the LLM service ever opens
MaxThreads == 2
\* how many characters past the 200 limit the longest input text goes
MaxOver == 1
\* requests of the form workflow issued after startup
MaxRequests == 2
\* linked-record ids in use
MaxCases == 1
\* lines of the longest text given to the email sanitizer
MaxLines == 4

\* characters of the longest answer given to the JSON extractor
MaxChars == 4

\* summary ids that requests name where links are at stake
MaxLinks == 2

(* --------------------------- program constants ------------------------- *)
_SUMMARY_MAX_CHARS == 200
_CAUSE_MAX_CHARS == 200
_ACTION_MAX_CHARS == 200

_ROLE_ADMIN == "admin"
_ROLE_USER == "user"
_ALLOWED_ROLES == {_ROLE_ADMIN, _ROLE_USER}

admin_username == "admin"
admin_password == "admin"

\* the thread ids of the LLM service, in the order it issues them
ThreadName == <<"t1", "t2", "t3", "t4">>
ThreadIds == {ThreadName[i] : i \in 1..MaxThreads}

\* the browser clients, each with its own session cookie
Clients == {"c1", "c2"}
\* the value of a session without a user id
NoUser == 0

\* a setting that is not configured (None)
NotSet == 0
\* the settings of a deployment with everything configured: the record
\* system's base URL and API key (TRUE when set), its three site ids, and the
\* environment tag APP_ENV
Configured(app_env) ==
  [pleasanter_base_url |-> TRUE, pleasanter_api_key |-> TRUE,
   pleasanter_mail_site_id |-> 3, pleasanter_summary_site_id |-> 1,
   pleasanter_case_site_id |-> 2, app_env |-> app_env]

VARIABLES
  users,          \* table users: id -> [username, password_hash, role]
  nextUserId,     \* the users id sequence
  conversations,  \* table conversations: id -> row
  forms,          \* table form_states, keyed by its unique conversation_id
  emails,         \* table emails: id -> row
  nextConvId,     \* the conversations id sequence
  nextEmailId,    \* the emails id sequence
  session,        \* the session cookie of each client: a user id or NoUser
  threads,        \* number of chat threads the LLM service has opened
  llmCalls,       \* number of chat calls received by the LLM service
  req,            \* per client: the request in flight or the last response
  resp,           \* the response to the last request served
  merge,          \* what the request answered last merged into a form
  nreq,           \* requests issued so far (bounds the form workflow)
  settings        \* the settings object, built once when the process starts

vars == <<users, nextUserId, conversations, forms, emails, nextConvId,
          nextEmailId, session, threads, llmCalls, req, resp, merge, nreq, settings>>

dbVars == <<users, nextUserId, conversations, forms, emails, nextConvId, nextEmailId>>
convVars == <<conversations, forms, emails, nextConvId, nextEmailId>>
llmVars == <<threads, llmCalls>>

(* ------------------------------ helpers -------------------------------- *)
\* a finite map extended by one row
AddRow(table, id, row) == [i \in DOMAIN table \cup {id} |-> IF i = id THEN row ELSE table[i]]
\* a finite map without the rows in ids
DropRows(table, ids) == [i \in DOMAIN table \ ids |-> table[i]]

EmptyTable == [i \in {} |-> 0]

(* ---------------------- roles: user_service.py ------------------------- *)
\* str(role or "").strip().lower() on the role texts the model feeds in
StripLower(role) ==
  CASE role = "Admin " -> "admin"
    [] role = " USER" -> "user"
    [] role = "Guest" -> "guest"
    [] OTHER -> role

normalize_role(role) ==
  LET role_s == StripLower(role)
  IN IF role_s \in _ALLOWED_ROLES THEN role_s ELSE _ROLE_USER

is_admin_role(role) == normalize_role(role) = _ROLE_ADMIN

(* ---------------------- passwords: security.py ------------------------- *)
\* the encoded hash; the random salt is left out, it plays no part here
hash_password(password) == <<"pbkdf2_sha256", password>>
verify_password(password, encoded) == encoded = hash_password(password)

(* ------------------ the user table: user_service.py -------------------- *)
UsersNamed(us, username) == {i \in DOMAIN us : us[i].username = username}

\* UserService.authenticate: the id of the user, or NoUser
authenticate(us, username, password) ==
  LET found == UsersNamed(us, username)
  IN IF found = {} THEN NoUser
     ELSE LET i == CHOOSE j \in found : TRUE
          IN IF verify_password(password, us[i].password_hash) THEN i ELSE NoUser

\* UserService.create_user with the next id of the sequence: hash_password
\* raises on an empty password, the flush fails on a duplicate username
create_user(us, id, username, password, role) ==
  IF password = "" THEN [status |-> 500, users |-> us]
  ELSE IF UsersNamed(us, username) # {} THEN [status |-> 400, users |-> us]
  ELSE [status |-> 0,
        users |-> AddRow(us, id, [username |-> username,
                                  password_hash |-> hash_password(password),
                                  role |-> normalize_role(role)])]

\* UserService.change_password
change_password(us, target_user_id, new_password) ==
  IF target_user_id \notin DOMAIN us THEN [status |-> 404, users |-> us]
  ELSE IF new_password = "" THEN [status |-> 500, users |-> us]
  ELSE [status |-> 0,
        users |-> [us EXCEPT ![target_user_id].password_hash = hash_password(new_password)]]

\* session.query(User).filter(User.role == "admin").count()
admin_count(us) == Cardinality({i \in DOMAIN us : us[i].role = _ROLE_ADMIN})

\* delete_user with its three refusals left out
delete_user_unchecked(us, me_user_id, target_user_id) ==
  IF target_user_id \notin DOMAIN us THEN [status |-> 404, users |-> us]
  ELSE [status |-> 0, users |-> DropRows(us, {target_user_id})]

\* the row removed first and the checks made afterwards
delete_user_then_check(us, me_user_id, target_user_id) ==
  LET after == DropRows(us, {target_user_id})
  IN IF target_user_id = me_user_id THEN [status |-> 400, users |-> after]
     ELSE IF target_user_id \notin DOMAIN us THEN [status |-> 404, users |-> after]
     ELSE IF is_admin_role(us[target_user_id].role) /\ admin_count(us) <= 1
          THEN [status |-> 400, users |-> after]
     ELSE [status |-> 0, users |-> after]

\* UserService.delete_user
delete_user(us, me_user_id, target_user_id) ==
  IF target_user_id = me_user_id THEN [status |-> 400, users |-> us]
  ELSE IF target_user_id \notin DOMAIN us THEN [status |-> 404, users |-> us]
  ELSE IF is_admin_role(us[target_user_id].role) /\ admin_count(us) <= 1
       THEN [status |-> 400, users |-> us]
  ELSE [status |-> 0, users |-> DropRows(us, {target_user_id})]

(* ---------------- identity of the caller: dependencies.py -------------- *)
\* each resolution yields 0 when it succeeds, else the status it fails with
get_current_user_id(sess) == IF sess = NoUser THEN 401 ELSE 0

get_current_user(us, sess) ==
  IF get_current_user_id(sess) # 0 THEN get_current_user_id(sess)
  ELSE IF sess \notin DOMAIN us THEN 401
  ELSE 0

\* require_admin without the comparison of the role
require_admin_any_role(us, sess) == get_current_user(us, sess)

require_admin(us, sess) ==
  IF get_current_user(us, sess) # 0 THEN get_current_user(us, sess)
  ELSE IF StripLower(us[sess].role) # "admin" THEN 403
  ELSE 0

\* main.py: _require_user_id
_require_user_id(sess) == IF sess = NoUser THEN 401 ELSE 0

(* ------------------------ requests and responses ----------------------- *)
Idle == [pc |-> "idle"]
\* the application has (re)started: no request has been served since
Started == [pc |-> "done", client |-> "server", op |-> "startup", path |-> "server",
            sess |-> NoUser, known |-> FALSE, status |-> 0, ran |-> TRUE,
            arg |-> "", out |-> ""]

\* the response to the request `op` of a client whose cookie held `sess`;
\* known: the user row of sess existed when the request arrived;
\* ran: the logic of the handler behind the identity check was executed
Done(c, op, path, sess, status, ran, arg, out) ==
  [pc |-> "done", client |-> c, op |-> op, path |-> path, sess |-> sess,
   known |-> sess \in DOMAIN users, status |-> status, ran |-> ran,
   arg |-> arg, out |-> out]

\* a client issues one request at a time
Free(c) == req[c].pc # "chat"

\* no parsed model output was applied
NoMerge == [op |-> "none"]

\* the response of a handler that runs in one piece
Respond(c, r) == resp' = r /\ req' = req /\ merge' = NoMerge /\ settings' = settings

\* the rows that go with a user: relationship cascades of models.py
ConvsOf(user_id) == {k \in DOMAIN conversations : conversations[k].user_id = user_id}
EmailsOf(convs) == {e \in DOMAIN emails : emails[e].conversation_id \in convs}

(* --------------------------- startup and login ------------------------- *)
\* UserService.ensure_admin_exists, run when the application starts
ensure_admin_exists ==
  LET found == UsersNamed(users, admin_username)
  IN /\ \A c \in Clients : Free(c)
     /\ IF found # {}
        THEN LET i == CHOOSE j \in found : TRUE
             IN /\ users' = IF ~is_admin_role(users[i].role)
                            THEN [users EXCEPT ![i].role = _ROLE_ADMIN]
                            ELSE users
                /\ nextUserId' = nextUserId
        ELSE /\ nextUserId <= MaxUsers
             /\ users' = AddRow(users, nextUserId,
                                [username |-> admin_username,
                                 password_hash |-> hash_password(admin_password),
                                 role |-> _ROLE_ADMIN])
             /\ nextUserId' = nextUserId + 1
     /\ resp' = Started
     /\ UNCHANGED <<convVars, session, llmVars, req, merge, nreq, settings>>

\* main.py: POST /login
login(c, username, password) ==
  LET id == authenticate(users, username, password)
  IN /\ Free(c)
     /\ session' = IF id = NoUser THEN session ELSE [session EXCEPT ![c] = id]
     /\ Respond(c, Done(c, "login", "page", session[c], 303, TRUE, username,
                        IF id = NoUser THEN "/login?error=1" ELSE "/"))
     /\ UNCHANGED <<dbVars, llmVars, nreq>>

\* main.py: POST /logout
logout(c) ==
  /\ Free(c)
  /\ session' = [session EXCEPT ![c] = NoUser]
  /\ Respond(c, Done(c, "logout", "page", session[c], 303, TRUE, "", "/login"))
  /\ UNCHANGED <<dbVars, llmVars, nreq>>

(* ------------------- the admin console: /admin/users/... --------------- *)
AdminMutations == {"create_user", "change_password", "delete_user"}

\* POST /admin/users/create: require_admin, then UserService.create_user
admin_create_user(c, username, password, role) ==
  LET sess == session[c]
      auth == require_admin(users, sess)
      r == create_user(users, nextUserId, username, password, role)
  IN /\ Free(c)
     /\ nextUserId <= MaxUsers
     /\ IF auth # 0
        THEN /\ UNCHANGED <<users, nextUserId>>
             /\ Respond(c, Done(c, "create_user", "admin", sess, auth, FALSE, username, ""))
        ELSE /\ users' = r.users
             /\ nextUserId' = IF r.status = 0 THEN nextUserId + 1 ELSE nextUserId
             /\ Respond(c, Done(c, "create_user", "admin", sess,
                                IF r.status = 0 THEN 303 ELSE r.status, TRUE, username, ""))
     /\ UNCHANGED <<convVars, session, llmVars, nreq>>

\* POST /admin/users/{id}/password: require_admin, then change_password
admin_change_password(c, target, new_password) ==
  LET sess == session[c]
      auth == require_admin(users, sess)
      r == change_password(users, target, new_password)
  IN /\ Free(c)
     /\ IF auth # 0
        THEN /\ users' = users
             /\ Respond(c, Done(c, "change_password", "admin", sess, auth, FALSE, target, ""))
        ELSE /\ users' = r.users
             /\ Respond(c, Done(c, "change_password", "admin", sess,
                                IF r.status = 0 THEN 303 ELSE r.status, TRUE, target, ""))
     /\ UNCHANGED <<nextUserId, convVars, session, llmVars, nreq>>

\* POST /admin/users/{id}/delete: require_admin, then delete_user; deleting
\* the row deletes the user's conversations with their forms and emails
admin_delete_user(c, target) ==
  LET sess == session[c]
      auth == require_admin(users, sess)
      r == delete_user(users, sess, target)
      gone == IF auth = 0 /\ r.status = 0 THEN ConvsOf(target) ELSE {}
  IN /\ Free(c)
     /\ \A d \in Clients : Free(d)
     /\ IF auth # 0
        THEN /\ users' = users
             /\ Respond(c, Done(c, "delete_user", "admin", sess, auth, FALSE, target, ""))
        ELSE /\ users' = r.users
             /\ Respond(c, Done(c, "delete_user", "admin", sess,
                                IF r.status = 0 THEN 303 ELSE r.status, TRUE, target,
                                IF target \in DOMAIN users THEN users[target].role ELSE ""))
     /\ conversations' = DropRows(conversations, gone)
     /\ forms' = DropRows(forms, gone)
     /\ emails' = DropRows(emails, EmailsOf(gone))
     /\ UNCHANGED <<nextUserId, nextConvId, nextEmailId, session, llmVars, nreq>>

(* ------------------- conversations, forms: models.py ------------------- *)
\* a conversation without a linked record (pleasanter_case_result_id NULL)
NoCase == 0
\* no conversation row
NoConv == 0

\* the column defaults of FormState
NewForm ==
  [summary |-> <<>>, cause |-> <<>>, action |-> <<>>, body |-> <<>>,
   include_summary |-> TRUE, include_cause |-> TRUE,
   include_action |-> TRUE, include_body |-> TRUE]

\* the lookup with the filter on the user left out
get_by_dify_id_any_user(convs, user_id, dify_id) ==
  LET found == {k \in DOMAIN convs : convs[k].dify_conversation_id = dify_id}
  IN IF found = {} THEN NoConv ELSE CHOOSE k \in found : TRUE

\* ConversationService.get_by_dify_id, also the inline query of main.py:
\* one_or_none() over (user_id, dify_conversation_id), which is unique
get_by_dify_id(convs, user_id, dify_id) ==
  LET found == {k \in DOMAIN convs : /\ convs[k].user_id = user_id
                                     /\ convs[k].dify_conversation_id = dify_id}
  IN IF found = {} THEN NoConv ELSE CHOOSE k \in found : TRUE

\* the lookup with the filter on the case id left out
get_by_case_id_any(convs, user_id, case_id) == NoConv

\* the query of get_or_create_for_case over (user_id, pleasanter_case_result_id)
get_by_case_id(convs, user_id, case_id) ==
  LET found == {k \in DOMAIN convs : /\ convs[k].user_id = user_id
                                     /\ convs[k].pleasanter_case_result_id = case_id}
  IN IF found = {} THEN NoConv ELSE CHOOSE k \in found : TRUE

(* --------------------- JSON routes of main.py: reads ------------------- *)
\* GET /api/me
api_me(c) ==
  LET sess == session[c]
      auth == _require_user_id(sess)
  IN /\ Free(c)
     /\ IF auth # 0
        THEN Respond(c, Done(c, "api_me", "api", sess, auth, FALSE, "", ""))
        ELSE IF sess \notin DOMAIN users
        THEN Respond(c, Done(c, "api_me", "api", sess, 401, TRUE, "", ""))
        ELSE Respond(c, Done(c, "api_me", "api", sess, 200, TRUE, "", users[sess].username))
     /\ UNCHANGED <<dbVars, session, llmVars, nreq>>

\* GET /api/conversations
api_conversations(c) ==
  LET sess == session[c]
      auth == _require_user_id(sess)
  IN /\ Free(c)
     /\ IF auth # 0
        THEN Respond(c, Done(c, "api_conversations", "api", sess, auth, FALSE, "", ""))
        ELSE Respond(c, Done(c, "api_conversations", "api", sess, 200, TRUE, "",
                             {conversations[k].dify_conversation_id : k \in ConvsOf(sess)}))
     /\ UNCHANGED <<dbVars, session, llmVars, nreq>>

\* POST /api/conversations: answers without looking at the session
api_create_conversation(c) ==
  /\ Free(c)
  /\ Respond(c, Done(c, "api_create_conversation", "api", session[c], 200, TRUE, "", ""))
  /\ UNCHANGED <<dbVars, session, llmVars, nreq>>

\* GET /api/form
api_get_form(c, conversation_id) ==
  LET sess == session[c]
      auth == _require_user_id(sess)
      conv == get_by_dify_id(conversations, sess, conversation_id)
  IN /\ Free(c)
     /\ IF auth # 0
        THEN Respond(c, Done(c, "api_get_form", "api", sess, auth, FALSE, conversation_id, ""))
        ELSE IF conv = NoConv \/ conv \notin DOMAIN forms
        THEN Respond(c, Done(c, "api_get_form", "api", sess, 404, TRUE, conversation_id, ""))
        ELSE Respond(c, Done(c, "api_get_form", "api", sess, 200, TRUE, conversation_id, forms[conv]))
     /\ UNCHANGED <<dbVars, session, llmVars, nreq>>

(* ------------------------------- text ---------------------------------- *)
Rep(ch, n) == [i \in 1..n |-> ch]

RECURSIVE lstrip(_)
lstrip(s) == IF s # <<>> /\ Head(s) = " " THEN lstrip(Tail(s)) ELSE s

RECURSIVE rstrip(_)
rstrip(s) == IF s # <<>> /\ s[Len(s)] = " " THEN rstrip(SubSeq(s, 1, Len(s) - 1)) ELSE s

\* str.strip()
strip(s) == lstrip(rstrip(s))

\* _limit_chars cutting one character short
_limit_chars_short(s, max_chars) ==
  IF max_chars <= 0 THEN <<>>
  ELSE IF Len(s) <= max_chars THEN s ELSE SubSeq(s, 1, max_chars - 1)

\* _limit_chars (conversation_service.py and, identical, main.py)
_limit_chars(s, max_chars) ==
  IF max_chars <= 0 THEN <<>>
  ELSE IF Len(s) <= max_chars THEN s ELSE SubSeq(s, 1, max_chars)

(* ------------------------- JSON values and objects --------------------- *)
\* a JSON value of a request body or of the parsed model output: null, a
\* boolean or a string; an object is a function from its keys to such values
JNull == [t |-> "null"]
JBool(b) == [t |-> "bool", b |-> b]
JStr(s) == [t |-> "str", s |-> s]

\* isinstance(v, str)
IsStr(v) == v.t = "str"
\* bool(v)
Truthy(v) == \/ IsStr(v) /\ v.s # <<>>
             \/ v.t = "bool" /\ v.b
\* str(v)
str(v) ==
  IF IsStr(v) THEN v.s
  ELSE IF v.t = "null" THEN <<"N", "o", "n", "e">>
  ELSE IF v.b THEN <<"T", "r", "u", "e">>
  ELSE <<"F", "a", "l", "s", "e">>
\* str(v or "")
StrOrEmpty(v) == IF Truthy(v) THEN str(v) ELSE <<>>
\* d.get(k)
Get(d, k) == IF k \in DOMAIN d THEN d[k] ELSE JNull
\* bool(d.get(k, True))
GetFlag(d, k) == IF k \in DOMAIN d THEN Truthy(d[k]) ELSE TRUE

EmptyObject == [k \in {} |-> JNull]

\* the result of try_parse_json_answer on the answer of the LLM service:
\* no object, or the object
NoParsed == [t |-> "none"]
Parsed(obj) == [t |-> "dict", obj |-> obj]
IsDict(parsed) == parsed.t = "dict"
\* bool(parsed): None and the empty object are falsy
ParsedTruthy(parsed) == IsDict(parsed) /\ DOMAIN parsed.obj # {}

(* -------------------- the merge of parsed model output ----------------- *)
pleasanter_case_summary_column == "DescriptionA"
pleasanter_case_cause_column == "DescriptionB"
pleasanter_case_action_column == "DescriptionC"
pleasanter_case_body_column == "Body"

summary_keys == <<pleasanter_case_summary_column, "summary", "overview", "DescriptionA">>
cause_keys == <<pleasanter_case_cause_column, "cause", "DescriptionB">>
action_keys == <<pleasanter_case_action_column, "action", "solution", "DescriptionC">>
body_keys == <<pleasanter_case_body_column, "body", "details", "Body">>

NotPicked == [has |-> FALSE, value |-> <<>>]

\* pick of ConversationService.apply_parsed_to_form: the first candidate key
\* that is present with a value that is neither null nor a blank string
RECURSIVE pick(_, _)
pick(keys, parsed) ==
  IF keys = <<>> THEN NotPicked
  ELSE IF Head(keys) \notin DOMAIN parsed THEN pick(Tail(keys), parsed)
  ELSE IF parsed[Head(keys)] = JNull THEN pick(Tail(keys), parsed)
  ELSE IF IsStr(parsed[Head(keys)]) /\ strip(parsed[Head(keys)].s) = <<>>
       THEN pick(Tail(keys), parsed)
  ELSE [has |-> TRUE, value |-> str(parsed[Head(keys)])]

\* pick of main.py _apply_parsed_to_form: the first candidate key present
RECURSIVE _pick(_, _)
_pick(keys, parsed) ==
  IF keys = <<>> THEN NotPicked
  ELSE IF Head(keys) \in DOMAIN parsed
       THEN [has |-> TRUE, value |-> StrOrEmpty(parsed[Head(keys)])]
  ELSE _pick(Tail(keys), parsed)

\* the four assignments both merges end with
assign_picked(form, summary, cause, action, body) ==
  [form EXCEPT
     !.summary = IF summary.has THEN _limit_chars(summary.value, _SUMMARY_MAX_CHARS) ELSE @,
     !.cause = IF cause.has THEN _limit_chars(cause.value, _CAUSE_MAX_CHARS) ELSE @,
     !.action = IF action.has THEN _limit_chars(action.value, _ACTION_MAX_CHARS) ELSE @,
     !.body = IF body.has THEN body.value ELSE @]

\* ConversationService.apply_parsed_to_form
apply_parsed_to_form(form, parsed) ==
  assign_picked(form, pick(summary_keys, parsed), pick(cause_keys, parsed),
                pick(action_keys, parsed), pick(body_keys, parsed))

\* main.py _apply_parsed_to_form
_apply_parsed_to_form(form, parsed) ==
  assign_picked(form, _pick(summary_keys, parsed), _pick(cause_keys, parsed),
                _pick(action_keys, parsed), _pick(body_keys, parsed))

(* -------------------- the email sanitizer: email_cleaner.py ------------ *)
\* an email text is a sequence of lines, none with leading or trailing
\* blanks; "--- forwarded message ---" stands for the forwarded-message
\* marker line of the second pattern
IsFromLine(ln) == ln \in {"From: a", "From: b"}
IsBlankLine(ln) == ln = ""
IsQuoteLine(ln) == ln = "> quoted"

\* _THREAD_SEPARATORS, by index: does the pattern match at the start of ln
SeparatorMatches(i, ln) ==
  CASE i = 1 -> ln = "-----Original Message-----"
    [] i = 2 -> ln = "--- forwarded message ---"
    [] i = 3 -> IsFromLine(ln)
    [] i = 4 -> ln = "Sent: now"
    [] i = 5 -> ln = "To: c"
    [] OTHER -> ln = "Subject: re"

NumSeparators == Len(<<"orig", "fwd", "From", "Sent", "To", "Subject">>)

RECURSIVE LStripLines(_)
LStripLines(t) == IF t # <<>> /\ IsBlankLine(Head(t)) THEN LStripLines(Tail(t)) ELSE t

RECURSIVE RStripLines(_)
RStripLines(t) ==
  IF t # <<>> /\ IsBlankLine(t[Len(t)]) THEN RStripLines(SubSeq(t, 1, Len(t) - 1)) ELSE t

StripLines(t) == LStripLines(RStripLines(t))

First(S) == CHOOSE i \in S : \A j \in S : i <= j

\* the cut at the second From: line
CutSecondFrom(t) ==
  LET from_hits == {i \in 1..Len(t) : IsFromLine(t[i])}
  IN IF Cardinality(from_hits) >= 2
     THEN RStripLines(SubSeq(t, 1, First(from_hits \ {First(from_hits)}) - 1))
     ELSE t

\* the loop over _THREAD_SEPARATORS from pattern i on: the first pattern
\* whose first match is not at the start of the text cuts, and ends the loop
RECURSIVE CutSeparator(_, _)
CutSeparator(i, t) ==
  IF i > NumSeparators THEN t
  ELSE LET hits == {j \in 1..Len(t) : SeparatorMatches(i, t[j])}
       IN IF hits # {} /\ First(hits) > 1
          THEN RStripLines(SubSeq(t, 1, First(hits) - 1))
          ELSE CutSeparator(i + 1, t)

\* clean_email_text
clean_email_text(raw) ==
  LET text == StripLines(raw)
  IN IF text = <<>> THEN <<>>
     ELSE StripLines(SelectSeq(CutSeparator(1, CutSecondFrom(text)),
                               LAMBDA ln : ~IsQuoteLine(ln)))

(* ------------------ requests that call the LLM service ----------------- *)
\* width of the summary, cause and action columns of form_states
FormStringWidth == 400

Fields == {"summary", "cause", "action", "body"}

\* str(x or "").strip() on the thread ids the model feeds in
strip_id(id) == IF id = " t1" THEN "t1" ELSE id

\* the insert or update of a form row at flush: a text longer than its
\* column is refused by the database
FitsColumns(form) ==
  /\ Len(form.summary) <= FormStringWidth
  /\ Len(form.cause) <= FormStringWidth
  /\ Len(form.action) <= FormStringWidth

\* the form of conversation k as a handler loads it; a handler that finds
\* none works on a new FormState
LoadForm(k) == IF k \in DOMAIN forms THEN forms[k] ELSE NewForm

\* the flush of a form that was loaded as `loaded` and is now `mine`: the
\* UPDATE carries the columns the handler changed, an INSERT the whole row
StoreForm(k, loaded, mine) ==
  IF k \in DOMAIN forms
  THEN [f \in DOMAIN mine |-> IF mine[f] # loaded[f] THEN mine[f] ELSE forms[k][f]]
  ELSE mine

\* a request that has read the database and waits for the LLM service:
\* cid is the thread id it sent, conv the conversation it found, loaded the
\* form as read, mine the form with the changes the handler made so far
InFlight(c, op, path, sess, arg, cid, conv, loaded, mine, raw) ==
  [pc |-> "chat", client |-> c, op |-> op, path |-> path, sess |-> sess,
   arg |-> arg, cid |-> cid, conv |-> conv, loaded |-> loaded, mine |-> mine,
   raw |-> raw]

\* what is left of a request r after its response: saw is the conversation
\* it found before the call, tid the thread id it ended with, conv and
\* email the rows it used and stored
Finished(r, status, tid, conv, email) ==
  [pc |-> "done", client |-> r.client, op |-> r.op, path |-> r.path,
   sess |-> r.sess, arg |-> r.arg, saw |-> r.conv, status |-> status,
   tid |-> tid, conv |-> conv, email |-> email]

\* a failed request that keeps what it had changed in the session
rollback_skipped(committed, pending) == pending

\* get_db and session_scope when the request raises: session.rollback()
\* discards what the request had changed in the session, the table is left
\* as committed
rollback(committed, pending) == committed

\* the response to an in-flight request r
Finish(c, status, tid, conv, email) ==
  /\ req' = [req EXCEPT ![c] = Finished(req[c], status, tid, conv, email)]
  /\ resp' = Done(c, req[c].op, req[c].path, req[c].sess, status, TRUE, req[c].arg,
                  [conversation_id |-> tid, conv |-> conv])
  /\ settings' = settings

\* the request goes to the LLM service
Call(c, r) ==
  /\ req' = [req EXCEPT ![c] = r]
  /\ llmCalls' = llmCalls + 1
  /\ resp' = resp
  /\ merge' = merge
  /\ settings' = settings

\* the answers of the LLM service to a chat call on thread cid: a failure
\* (DifyClient.chat raises), or a body with a thread id and an answer.  A
\* call without a thread id opens a new thread; a call on a thread the
\* service has opened is answered on that thread; a call on any other
\* thread id fails.  A body may come without its thread id.
Opened == {ThreadName[i] : i \in 1..threads}
Failure == [ok |-> FALSE]
Answer(conversation_id, parsed) ==
  [ok |-> TRUE, conversation_id |-> conversation_id, parsed |-> parsed]
ReplyIds(cid) ==
  IF cid = "" THEN {""} \cup (IF threads < MaxThreads THEN {ThreadName[threads + 1]} ELSE {})
  ELSE IF cid \in Opened THEN {cid, ""}
  ELSE {}
\* the thread count after the answer
Threads(reply) ==
  IF reply.ok /\ reply.conversation_id # "" /\ reply.conversation_id \notin Opened
  THEN threads + 1 ELSE threads

\* a text that is MaxOver characters longer than the limit of 200
Over == Rep("a", _SUMMARY_MAX_CHARS) \o Rep("b", MaxOver)

\* the objects the LLM service answers with
Single(k, v) == [x \in {k} |-> v]
Pair(k1, v1, k2, v2) == [x \in {k1, k2} |-> IF x = k1 THEN v1 ELSE v2]
ParsedObjects ==
  {EmptyObject,
   Single("cause", JStr(<<"a">>)),
   Single("cause", JStr(<<>>)),
   Single("solution", JNull),
   Pair("DescriptionA", JStr(<<" ">>), "summary", JStr(<<"a">>)),
   Pair("summary", JStr(Over), "Body", JStr(Over))}
ParsedInputs == {NoParsed} \cup {Parsed(obj) : obj \in ParsedObjects}

\* every answer the LLM service can give to the chat call of request r
Replies(r) == {Failure} \cup {Answer(id, p) : id \in ReplyIds(r.cid), p \in ParsedInputs}
\* the answers of the LLM service, whatever the call
ReplyInputs == {Failure} \cup {Answer(id, p) : id \in {""} \cup ThreadIds, p \in ParsedInputs}

\* str(data.get("conversation_id") or conversation_id or "").strip()
reply_conversation_id(reply, conversation_id) ==
  IF reply.conversation_id # "" THEN reply.conversation_id ELSE conversation_id

\* the rows a new conversation (user_id, dify_id, case_id) collides with:
\* uq_user_dify_conversation and uq_user_case_result_id of models.py
Conflicts(user_id, dify_id, case_id) ==
  {k \in DOMAIN conversations :
     /\ conversations[k].user_id = user_id
     /\ \/ conversations[k].dify_conversation_id = dify_id
        \/ case_id # NoCase /\ conversations[k].pleasanter_case_result_id = case_id}

NewConversation(user_id, dify_id, title, case_id) ==
  [user_id |-> user_id, dify_conversation_id |-> dify_id, title |-> title,
   pleasanter_case_result_id |-> case_id]

NewEmail(conv, raw) ==
  [conversation_id |-> conv, pleasanter_mail_result_id |-> NotSet,
   raw_text |-> raw, cleaned_text |-> clean_email_text(raw)]

\* the application of parsed model output that a request ended with
Merged(r, variant, before, parsed, after) ==
  [op |-> r.op, path |-> r.path, variant |-> variant, before |-> before,
   parsed |-> parsed, after |-> after]

(* ------------- ConversationService: conversation_service.py ------------ *)
\* The service methods run for the user that the identity dependency of
\* dependencies.py resolved from the session (get_current_user where the
\* method takes the user, get_current_user_id where it takes the user id),
\* inside the transaction of get_db: commit on return, rollback on an error.

\* ConversationService.get_or_create_for_case, up to the chat call
get_or_create_for_case(c, case_id) ==
  LET sess == session[c]
      auth == get_current_user(users, sess)
      conv == get_by_case_id(conversations, sess, case_id)
  IN /\ Free(c)
     /\ IF auth # 0
        THEN /\ Respond(c, Done(c, "get_or_create_for_case", "service", sess, auth, FALSE,
                                case_id, [conversation_id |-> "", conv |-> NoConv]))
             /\ UNCHANGED <<llmCalls, nreq>>
        ELSE IF conv # NoConv
        THEN /\ Respond(c, Done(c, "get_or_create_for_case", "service", sess, 200, TRUE, case_id,
                                [conversation_id |-> conversations[conv].dify_conversation_id,
                                 conv |-> conv, found |-> TRUE]))
             /\ UNCHANGED <<llmCalls, nreq>>
        ELSE /\ nreq < MaxRequests
             /\ nreq' = nreq + 1
             /\ Call(c, InFlight(c, "get_or_create_for_case", "service", sess, case_id, "",
                                 NoConv, NewForm, NewForm, <<>>))
     /\ UNCHANGED <<dbVars, session, threads>>

\* ConversationService.get_or_create_for_case, from the answer on: the new
\* row is flushed without a handler for a unique-constraint violation
get_or_create_for_case_reply(c, reply) ==
  LET r == req[c]
      conversation_id == IF reply.ok THEN reply.conversation_id ELSE ""
  IN /\ r.pc = "chat" /\ r.op = "get_or_create_for_case"
     /\ reply \in {Failure} \cup {Answer(id, NoParsed) : id \in ReplyIds(r.cid)}
     /\ threads' = Threads(reply)
     /\ IF conversation_id = ""
        THEN /\ Finish(c, 502, "", NoConv, 0)
             /\ UNCHANGED dbVars
        ELSE IF Conflicts(r.sess, conversation_id, r.arg) # {}
        THEN /\ Finish(c, 500, conversation_id, NoConv, 0)
             /\ UNCHANGED dbVars
        ELSE /\ nextConvId <= MaxConvs
             /\ conversations' = AddRow(conversations, nextConvId,
                                        NewConversation(r.sess, conversation_id, "case", r.arg))
             /\ forms' = AddRow(forms, nextConvId, NewForm)
             /\ nextConvId' = nextConvId + 1
             /\ Finish(c, 200, conversation_id, nextConvId, 0)
             /\ UNCHANGED <<users, nextUserId, emails, nextEmailId>>
     /\ merge' = NoMerge
     /\ UNCHANGED <<session, llmCalls, nreq>>

\* ConversationService.get_form
get_form(c, conversation_id) ==
  LET sess == session[c]
      auth == get_current_user_id(sess)
      conv == get_by_dify_id(conversations, sess, conversation_id)
  IN /\ Free(c)
     /\ IF auth # 0
        THEN Respond(c, Done(c, "get_form", "service", sess, auth, FALSE, conversation_id, ""))
        ELSE IF conv = NoConv \/ conv \notin DOMAIN forms
        THEN Respond(c, Done(c, "get_form", "service", sess, 404, TRUE, conversation_id, ""))
        ELSE Respond(c, Done(c, "get_form", "service", sess, 200, TRUE, conversation_id,
                             forms[conv]))
     /\ UNCHANGED <<dbVars, session, llmVars, nreq>>

\* the eight assignments of update_form, the same in main.py
form_from_payload(payload) ==
  [summary |-> StrOrEmpty(Get(payload, "summary")),
   cause |-> StrOrEmpty(Get(payload, "cause")),
   action |-> StrOrEmpty(Get(payload, "action")),
   body |-> StrOrEmpty(Get(payload, "body")),
   include_summary |-> GetFlag(payload, "include_summary"),
   include_cause |-> GetFlag(payload, "include_cause"),
   include_action |-> GetFlag(payload, "include_action"),
   include_body |-> GetFlag(payload, "include_body")]

\* ConversationService.update_form
update_form(c, conversation_id_in, payload) ==
  LET sess == session[c]
      auth == get_current_user_id(sess)
      conversation_id == strip_id(conversation_id_in)
      conv == get_by_dify_id(conversations, sess, conversation_id)
      form == form_from_payload(payload)
      Reply(status, ran) ==
        Respond(c, Done(c, "update_form", "service", sess, status, ran, conversation_id, ""))
  IN /\ Free(c)
     /\ nreq < MaxRequests
     /\ nreq' = nreq + 1
     /\ IF auth # 0 THEN Reply(auth, FALSE) /\ UNCHANGED forms
        ELSE IF conversation_id = "" THEN Reply(400, TRUE) /\ UNCHANGED forms
        ELSE IF conv = NoConv THEN Reply(404, TRUE) /\ UNCHANGED forms
        ELSE IF ~FitsColumns(form) THEN Reply(500, TRUE) /\ UNCHANGED forms
        ELSE /\ forms' = AddRow(forms, conv, form)
             /\ Reply(200, TRUE)
     /\ UNCHANGED <<users, nextUserId, conversations, emails, nextConvId, nextEmailId,
                    session, llmVars, merge>>

\* isinstance(v, str) and v.strip() on an email text, which is a sequence
\* of lines
IsEmailText(v) == IsStr(v) /\ StripLines(v.s) # <<>>
\* isinstance(v, str) and v.strip() on a text of characters
IsNonBlank(v) == IsStr(v) /\ strip(v.s) # <<>>

\* ConversationService.summarize_email, up to the chat call
summarize_email(c, conversation_id_in, email_text) ==
  LET sess == session[c]
      auth == get_current_user(users, sess)
      conversation_id == strip_id(conversation_id_in)
      conv == IF conversation_id # ""
              THEN get_by_dify_id(conversations, sess, conversation_id) ELSE NoConv
      Reply(status, ran) ==
        /\ Respond(c, Done(c, "summarize_email", "service", sess, status, ran, conversation_id,
                           [conversation_id |-> "", conv |-> NoConv]))
        /\ UNCHANGED llmCalls
  IN /\ Free(c)
     /\ nreq < MaxRequests
     /\ nreq' = nreq + 1
     /\ IF auth # 0 THEN Reply(auth, FALSE)
        ELSE IF ~IsEmailText(email_text) THEN Reply(400, TRUE)
        ELSE Call(c, InFlight(c, "summarize_email", "service", sess, conversation_id,
                              conversation_id, conv, NewForm, NewForm, email_text.s))
     /\ UNCHANGED <<dbVars, session, threads>>

\* ConversationService.summarize_email, from the answer on: a new
\* conversation that collides with a committed one is given up for that one
summarize_email_answer(c, reply) ==
  LET r == req[c]
      conversation_id == IF reply.ok THEN reply_conversation_id(reply, r.cid) ELSE ""
      collides == r.conv = NoConv /\ Conflicts(r.sess, conversation_id, NoCase) # {}
      created == r.conv = NoConv /\ ~collides
      conv == IF r.conv # NoConv THEN r.conv
              ELSE IF collides THEN get_by_dify_id(conversations, r.sess, conversation_id)
              ELSE nextConvId
      form == LoadForm(conv)
      merges == reply.ok /\ ParsedTruthy(reply.parsed)
      merged == IF merges THEN apply_parsed_to_form(form, reply.parsed.obj) ELSE form
  IN /\ r.pc = "chat" /\ r.op = "summarize_email" /\ r.path = "service"
     /\ threads' = Threads(reply)
     /\ IF conversation_id = ""
        THEN /\ Finish(c, 502, "", NoConv, 0)
             /\ UNCHANGED dbVars /\ merge' = NoMerge
        ELSE IF conv = NoConv \/ ~FitsColumns(merged)
        THEN /\ Finish(c, 500, conversation_id, NoConv, 0)
             /\ UNCHANGED dbVars /\ merge' = NoMerge
        ELSE /\ created => nextConvId <= MaxConvs
             /\ nextEmailId <= MaxEmails
             /\ conversations' =
                  IF created
                  THEN AddRow(conversations, conv,
                              NewConversation(r.sess, conversation_id, "mail", NoCase))
                  ELSE conversations
             /\ nextConvId' = IF created THEN nextConvId + 1 ELSE nextConvId
             /\ forms' = AddRow(forms, conv, StoreForm(conv, form, merged))
             /\ emails' = AddRow(emails, nextEmailId, NewEmail(conv, r.raw))
             /\ nextEmailId' = nextEmailId + 1
             /\ merge' = IF merges
                         THEN Merged(r, "service", form, reply.parsed.obj, forms'[conv])
                         ELSE NoMerge
             /\ Finish(c, 200, conversation_id, conv, nextEmailId)
             /\ UNCHANGED <<users, nextUserId>>
     /\ UNCHANGED <<session, llmCalls, nreq>>

\* summarize_email answered by an LLM service that keeps to the thread of
\* the call
summarize_email_reply(c, reply) ==
  /\ req[c].pc = "chat"
  /\ reply \in Replies(req[c])
  /\ summarize_email_answer(c, reply)

\* ConversationService.form_ai_edit, up to the chat call
form_ai_edit(c, conversation_id_in, instruction) ==
  LET sess == session[c]
      auth == get_current_user(users, sess)
      conversation_id == strip_id(conversation_id_in)
      conv == get_by_dify_id(conversations, sess, conversation_id)
      Reply(status, ran) ==
        /\ Respond(c, Done(c, "form_ai_edit", "service", sess, status, ran, conversation_id,
                           [conversation_id |-> "", conv |-> NoConv]))
        /\ UNCHANGED llmCalls
  IN /\ Free(c)
     /\ nreq < MaxRequests
     /\ nreq' = nreq + 1
     /\ IF auth # 0 THEN Reply(auth, FALSE)
        ELSE IF conversation_id = "" THEN Reply(400, TRUE)
        ELSE IF ~IsNonBlank(instruction) THEN Reply(400, TRUE)
        ELSE IF conv = NoConv \/ conv \notin DOMAIN forms THEN Reply(404, TRUE)
        ELSE Call(c, InFlight(c, "form_ai_edit", "service", sess, conversation_id,
                              conversation_id, conv, forms[conv], forms[conv], <<>>))
     /\ UNCHANGED <<dbVars, session, threads>>

\* ConversationService.form_ai_edit, from the answer on
form_ai_edit_reply(c, reply) ==
  LET r == req[c]
      merges == reply.ok /\ IsDict(reply.parsed)
      merged == IF merges THEN apply_parsed_to_form(r.mine, reply.parsed.obj) ELSE r.mine
  IN /\ r.pc = "chat" /\ r.op = "form_ai_edit" /\ r.path = "service"
     /\ reply \in Replies(r)
     /\ threads' = Threads(reply)
     /\ IF ~reply.ok
        THEN /\ Finish(c, 502, "", NoConv, 0)
             /\ UNCHANGED forms /\ merge' = NoMerge
        ELSE IF ~FitsColumns(merged)
        THEN /\ Finish(c, 500, r.cid, NoConv, 0)
             /\ UNCHANGED forms /\ merge' = NoMerge
        ELSE /\ forms' = AddRow(forms, r.conv, StoreForm(r.conv, r.loaded, merged))
             /\ merge' = IF merges
                         THEN Merged(r, "service", r.mine, reply.parsed.obj, forms'[r.conv])
                         ELSE NoMerge
             /\ Finish(c, 200, r.cid, r.conv, 0)
     /\ UNCHANGED <<users, nextUserId, conversations, emails, nextConvId, nextEmailId,
                    session, llmCalls, nreq>>

\* the keys chat-UI write takes its instruction from, in this order
instruction_keys ==
  <<"user_comment", "instruction", "message", "text", "content", "query", "input", "prompt">>

\* the loop over instruction_keys ends with a non-blank instruction
has_instruction(payload) ==
  \E i \in 1..Len(instruction_keys) : IsNonBlank(Get(payload, instruction_keys[i]))

\* the flags and field values chat-UI write takes from the request body
\* before it builds the prompt, the same in main.py
form_with_payload(f, payload) ==
  [summary |-> IF IsStr(Get(payload, "summary"))
               THEN StrOrEmpty(Get(payload, "summary")) ELSE f.summary,
   cause |-> IF IsStr(Get(payload, "cause"))
             THEN StrOrEmpty(Get(payload, "cause")) ELSE f.cause,
   action |-> IF IsStr(Get(payload, "action"))
              THEN StrOrEmpty(Get(payload, "action")) ELSE f.action,
   body |-> IF IsStr(Get(payload, "body"))
            THEN StrOrEmpty(Get(payload, "body")) ELSE f.body,
   include_summary |-> IsStr(Get(payload, "summary")),
   include_cause |-> IsStr(Get(payload, "cause")),
   include_action |-> IsStr(Get(payload, "action")),
   include_body |-> IsStr(Get(payload, "body"))]

\* ConversationService.chat_ui_post, up to the chat call
chat_ui_post(c, conversation_id, payload) ==
  LET sess == session[c]
      auth == get_current_user(users, sess)
      conv == get_by_dify_id(conversations, sess, conversation_id)
      Reply(status, ran) ==
        /\ Respond(c, Done(c, "chat_ui_post", "service", sess, status, ran, conversation_id,
                           [conversation_id |-> "", conv |-> NoConv]))
        /\ UNCHANGED llmCalls
  IN /\ Free(c)
     /\ nreq < MaxRequests
     /\ nreq' = nreq + 1
     /\ IF auth # 0 THEN Reply(auth, FALSE)
        ELSE IF conv = NoConv THEN Reply(404, TRUE)
        ELSE IF ~has_instruction(payload) THEN Reply(400, TRUE)
        ELSE Call(c, InFlight(c, "chat_ui_post", "service", sess, conversation_id,
                              conversation_id, conv, LoadForm(conv),
                              form_with_payload(LoadForm(conv), payload), <<>>))
     /\ UNCHANGED <<dbVars, session, threads>>

\* ConversationService.chat_ui_post, from the answer on
chat_ui_post_reply(c, reply) ==
  LET r == req[c]
      merges == reply.ok /\ IsDict(reply.parsed)
      merged == IF merges THEN apply_parsed_to_form(r.mine, reply.parsed.obj) ELSE r.mine
  IN /\ r.pc = "chat" /\ r.op = "chat_ui_post" /\ r.path = "service"
     /\ reply \in Replies(r)
     /\ threads' = Threads(reply)
     /\ IF ~reply.ok
        THEN /\ Finish(c, 502, "", NoConv, 0)
             /\ forms' = rollback(forms, AddRow(forms, r.conv, r.mine))
             /\ merge' = NoMerge
        ELSE IF ~FitsColumns(merged)
        THEN /\ Finish(c, 500, r.cid, NoConv, 0)
             /\ UNCHANGED forms /\ merge' = NoMerge
        ELSE /\ forms' = AddRow(forms, r.conv, StoreForm(r.conv, r.loaded, merged))
             /\ merge' = IF merges
                         THEN Merged(r, "service", r.mine, reply.parsed.obj, forms'[r.conv])
                         ELSE NoMerge
             /\ Finish(c, 200, r.cid, r.conv, 0)
     /\ UNCHANGED <<users, nextUserId, conversations, emails, nextConvId, nextEmailId,
                    session, llmCalls, nreq>>

(* -------------------- JSON routes of main.py: writes ------------------- *)
\* The routes of main.py take the user id from the session (_require_user_id)
\* and work inside session_scope: commit on return, rollback on an error.

\* main.py: _get_or_create_conversation_for_case, up to the chat call, for
\* the user row of the session
_get_or_create_conversation_for_case(c, case_result_id) ==
  LET sess == session[c]
      auth == _require_user_id(sess)
      conv == get_by_case_id(conversations, sess, case_result_id)
      op == "_get_or_create_conversation_for_case"
  IN /\ Free(c)
     /\ IF auth # 0 \/ sess \notin DOMAIN users
        THEN /\ Respond(c, Done(c, op, "api", sess, 401, auth = 0, case_result_id,
                                [conversation_id |-> "", conv |-> NoConv]))
             /\ UNCHANGED <<llmCalls, nreq>>
        ELSE IF conv # NoConv
        THEN /\ Respond(c, Done(c, op, "api", sess, 200, TRUE, case_result_id,
                                [conversation_id |-> conversations[conv].dify_conversation_id,
                                 conv |-> conv, found |-> TRUE]))
             /\ UNCHANGED <<llmCalls, nreq>>
        ELSE /\ nreq < MaxRequests
             /\ nreq' = nreq + 1
             /\ Call(c, InFlight(c, op, "api", sess, case_result_id, "",
                                 NoConv, NewForm, NewForm, <<>>))
     /\ UNCHANGED <<dbVars, session, threads>>

\* main.py: _get_or_create_conversation_for_case, from the answer on
_get_or_create_conversation_for_case_reply(c, reply) ==
  LET r == req[c]
      conversation_id == IF reply.ok THEN reply.conversation_id ELSE ""
  IN /\ r.pc = "chat" /\ r.op = "_get_or_create_conversation_for_case"
     /\ reply \in {Failure} \cup {Answer(id, NoParsed) : id \in ReplyIds(r.cid)}
     /\ threads' = Threads(reply)
     /\ IF conversation_id = ""
        THEN /\ Finish(c, 502, "", NoConv, 0)
             /\ UNCHANGED dbVars
        ELSE IF Conflicts(r.sess, conversation_id, r.arg) # {}
        THEN /\ Finish(c, 500, conversation_id, NoConv, 0)
             /\ UNCHANGED dbVars
        ELSE /\ nextConvId <= MaxConvs
             /\ conversations' = AddRow(conversations, nextConvId,
                                        NewConversation(r.sess, conversation_id, "case", r.arg))
             /\ forms' = AddRow(forms, nextConvId, NewForm)
             /\ nextConvId' = nextConvId + 1
             /\ Finish(c, 200, conversation_id, nextConvId, 0)
             /\ UNCHANGED <<users, nextUserId, emails, nextEmailId>>
     /\ merge' = NoMerge
     /\ UNCHANGED <<session, llmCalls, nreq>>

\* POST /api/form/update
api_update_form(c, conversation_id_in, payload) ==
  LET sess == session[c]
      auth == _require_user_id(sess)
      conversation_id == strip_id(conversation_id_in)
      conv == get_by_dify_id(conversations, sess, conversation_id)
      form == form_from_payload(payload)
      Reply(status, ran) ==
        Respond(c, Done(c, "api_update_form", "api", sess, status, ran, conversation_id, ""))
  IN /\ Free(c)
     /\ nreq < MaxRequests
     /\ nreq' = nreq + 1
     /\ IF auth # 0 THEN Reply(auth, FALSE) /\ UNCHANGED forms
        ELSE IF conversation_id = "" THEN Reply(400, TRUE) /\ UNCHANGED forms
        ELSE IF conv = NoConv THEN Reply(404, TRUE) /\ UNCHANGED forms
        ELSE IF ~FitsColumns(form) THEN Reply(500, TRUE) /\ UNCHANGED forms
        ELSE /\ forms' = AddRow(forms, conv, form)
             /\ Reply(200, TRUE)
     /\ UNCHANGED <<users, nextUserId, conversations, emails, nextConvId, nextEmailId,
                    session, llmVars, merge>>

\* POST /api/chat, up to the chat call: the body goes to the LLM service
api_chat(c, conversation_id, query) ==
  LET sess == session[c]
      auth == _require_user_id(sess)
      Reply(status, ran) ==
        /\ Respond(c, Done(c, "api_chat", "api", sess, status, ran, conversation_id,
                           [conversation_id |-> "", conv |-> NoConv]))
        /\ UNCHANGED llmCalls
  IN /\ Free(c)
     /\ nreq < MaxRequests
     /\ nreq' = nreq + 1
     /\ IF auth # 0 THEN Reply(auth, FALSE)
        ELSE IF ~IsNonBlank(query) THEN Reply(400, TRUE)
        ELSE IF sess \notin DOMAIN users THEN Reply(401, TRUE)
        ELSE Call(c, InFlight(c, "api_chat", "api", sess, conversation_id, conversation_id,
                              NoConv, NewForm, NewForm, <<>>))
     /\ UNCHANGED <<dbVars, session, threads>>

\* POST /api/chat, from the answer on: the answer goes back as it is
api_chat_reply(c, reply) ==
  LET r == req[c]
  IN /\ r.pc = "chat" /\ r.op = "api_chat"
     /\ reply \in {Failure} \cup {Answer(id, NoParsed) : id \in ReplyIds(r.cid)}
     /\ threads' = Threads(reply)
     /\ IF reply.ok
        THEN Finish(c, 200, reply.conversation_id, NoConv, 0)
        ELSE Finish(c, 502, "", NoConv, 0)
     /\ merge' = NoMerge
     /\ UNCHANGED <<dbVars, session, llmCalls, nreq>>

\* POST /api/summarize_email, up to the chat call
api_summarize_email(c, conversation_id_in, email_text) ==
  LET sess == session[c]
      auth == _require_user_id(sess)
      conversation_id == strip_id(conversation_id_in)
      conv == IF conversation_id # ""
              THEN get_by_dify_id(conversations, sess, conversation_id) ELSE NoConv
      Reply(status, ran) ==
        /\ Respond(c, Done(c, "api_summarize_email", "api", sess, status, ran, conversation_id,
                           [conversation_id |-> "", conv |-> NoConv]))
        /\ UNCHANGED llmCalls
  IN /\ Free(c)
     /\ nreq < MaxRequests
     /\ nreq' = nreq + 1
     /\ IF auth # 0 THEN Reply(auth, FALSE)
        ELSE IF ~IsEmailText(email_text) THEN Reply(400, TRUE)
        ELSE IF sess \notin DOMAIN users THEN Reply(401, TRUE)
        ELSE Call(c, InFlight(c, "api_summarize_email", "api", sess, conversation_id,
                              conversation_id, conv, NewForm, NewForm, email_text.s))
     /\ UNCHANGED <<dbVars, session, threads>>

\* POST /api/summarize_email, from the answer on: the new conversation is
\* flushed without a handler for a unique-constraint violation
api_summarize_email_reply(c, reply) ==
  LET r == req[c]
      conversation_id == IF reply.ok THEN reply_conversation_id(reply, r.cid) ELSE ""
      collides == r.conv = NoConv /\ Conflicts(r.sess, conversation_id, NoCase) # {}
      created == r.conv = NoConv /\ ~collides
      conv == IF created THEN nextConvId ELSE r.conv
      has_form == created \/ conv \in DOMAIN forms
      form == LoadForm(conv)
      merges == reply.ok /\ ParsedTruthy(reply.parsed) /\ has_form
      merged == IF merges THEN _apply_parsed_to_form(form, reply.parsed.obj) ELSE form
  IN /\ r.pc = "chat" /\ r.op = "api_summarize_email"
     /\ reply \in Replies(r)
     /\ threads' = Threads(reply)
     /\ IF conversation_id = ""
        THEN /\ Finish(c, 502, "", NoConv, 0)
             /\ UNCHANGED dbVars /\ merge' = NoMerge
        ELSE IF collides \/ ~FitsColumns(merged)
        THEN /\ Finish(c, 500, conversation_id, NoConv, 0)
             /\ UNCHANGED dbVars /\ merge' = NoMerge
        ELSE /\ created => nextConvId <= MaxConvs
             /\ nextEmailId <= MaxEmails
             /\ conversations' =
                  IF created
                  THEN AddRow(conversations, conv,
                              NewConversation(r.sess, conversation_id, "mail", NoCase))
                  ELSE conversations
             /\ nextConvId' = IF created THEN nextConvId + 1 ELSE nextConvId
             /\ forms' = IF has_form
                         THEN AddRow(forms, conv, StoreForm(conv, form, merged))
                         ELSE forms
             /\ emails' = AddRow(emails, nextEmailId, NewEmail(conv, r.raw))
             /\ nextEmailId' = nextEmailId + 1
             /\ merge' = IF merges
                         THEN Merged(r, "main", form, reply.parsed.obj, forms'[conv])
                         ELSE NoMerge
             /\ Finish(c, 200, conversation_id, conv, nextEmailId)
             /\ UNCHANGED <<users, nextUserId>>
     /\ UNCHANGED <<session, llmCalls, nreq>>

\* POST /api/form/ai_edit, up to the chat call
api_form_ai_edit(c, conversation_id_in, instruction) ==
  LET sess == session[c]
      auth == _require_user_id(sess)
      conversation_id == strip_id(conversation_id_in)
      conv == get_by_dify_id(conversations, sess, conversation_id)
      Reply(status, ran) ==
        /\ Respond(c, Done(c, "api_form_ai_edit", "api", sess, status, ran, conversation_id,
                           [conversation_id |-> "", conv |-> NoConv]))
        /\ UNCHANGED llmCalls
  IN /\ Free(c)
     /\ nreq < MaxRequests
     /\ nreq' = nreq + 1
     /\ IF auth # 0 THEN Reply(auth, FALSE)
        ELSE IF conversation_id = "" THEN Reply(400, TRUE)
        ELSE IF ~IsNonBlank(instruction) THEN Reply(400, TRUE)
        ELSE IF sess \notin DOMAIN users THEN Reply(401, TRUE)
        ELSE IF conv = NoConv \/ conv \notin DOMAIN forms THEN Reply(404, TRUE)
        ELSE Call(c, InFlight(c, "api_form_ai_edit", "api", sess, conversation_id,
                              conversation_id, conv, forms[conv], forms[conv], <<>>))
     /\ UNCHANGED <<dbVars, session, threads>>

\* POST /api/form/ai_edit, from the answer on
api_form_ai_edit_reply(c, reply) ==
  LET r == req[c]
      merges == reply.ok /\ ParsedTruthy(reply.parsed)
      merged == IF merges THEN _apply_parsed_to_form(r.mine, reply.parsed.obj) ELSE r.mine
  IN /\ r.pc = "chat" /\ r.op = "api_form_ai_edit"
     /\ reply \in Replies(r)
     /\ threads' = Threads(reply)
     /\ IF ~reply.ok
        THEN /\ Finish(c, 502, "", NoConv, 0)
             /\ UNCHANGED forms /\ merge' = NoMerge
        ELSE IF ~FitsColumns(merged)
        THEN /\ Finish(c, 500, r.cid, NoConv, 0)
             /\ UNCHANGED forms /\ merge' = NoMerge
        ELSE /\ forms' = AddRow(forms, r.conv, StoreForm(r.conv, r.loaded, merged))
             /\ merge' = IF merges
                         THEN Merged(r, "main", r.mine, reply.parsed.obj, forms'[r.conv])
                         ELSE NoMerge
             /\ Finish(c, 200, r.cid, r.conv, 0)
     /\ UNCHANGED <<users, nextUserId, conversations, emails, nextConvId, nextEmailId,
                    session, llmCalls, nreq>>

\* POST /api/chat-ui, up to the chat call; the thread id comes from the
\* request body or else from the query string
api_chat_ui(c, conversation_id_in, payload) ==
  LET sess == session[c]
      auth == _require_user_id(sess)
      conversation_id == strip_id(conversation_id_in)
      conv == get_by_dify_id(conversations, sess, conversation_id)
      Reply(status, ran) ==
        /\ Respond(c, Done(c, "api_chat_ui", "api", sess, status, ran, conversation_id,
                           [conversation_id |-> "", conv |-> NoConv]))
        /\ UNCHANGED llmCalls
  IN /\ Free(c)
     /\ nreq < MaxRequests
     /\ nreq' = nreq + 1
     /\ IF auth # 0 THEN Reply(auth, FALSE)
        ELSE IF conversation_id = "" THEN Reply(400, TRUE)
        ELSE IF sess \notin DOMAIN users THEN Reply(401, TRUE)
        ELSE IF conv = NoConv THEN Reply(404, TRUE)
        ELSE IF ~has_instruction(payload) THEN Reply(400, TRUE)
        ELSE Call(c, InFlight(c, "api_chat_ui", "api", sess, conversation_id,
                              conversation_id, conv, LoadForm(conv),
                              form_with_payload(LoadForm(conv), payload), <<>>))
     /\ UNCHANGED <<dbVars, session, threads>>

\* POST /api/chat-ui, from the answer on
api_chat_ui_reply(c, reply) ==
  LET r == req[c]
      merges == reply.ok /\ IsDict(reply.parsed)
      merged == IF merges THEN _apply_parsed_to_form(r.mine, reply.parsed.obj) ELSE r.mine
  IN /\ r.pc = "chat" /\ r.op = "api_chat_ui"
     /\ reply \in Replies(r)
     /\ threads' = Threads(reply)
     /\ IF ~reply.ok
        THEN /\ Finish(c, 502, "", NoConv, 0)
             /\ UNCHANGED forms /\ merge' = NoMerge
        ELSE IF ~FitsColumns(merged)
        THEN /\ Finish(c, 500, r.cid, NoConv, 0)
             /\ UNCHANGED forms /\ merge' = NoMerge
        ELSE /\ forms' = AddRow(forms, r.conv, StoreForm(r.conv, r.loaded, merged))
             /\ merge' = IF merges
                         THEN Merged(r, "main", r.mine, reply.parsed.obj, forms'[r.conv])
                         ELSE NoMerge
             /\ Finish(c, 200, r.cid, r.conv, 0)
     /\ UNCHANGED <<users, nextUserId, conversations, emails, nextConvId, nextEmailId,
                    session, llmCalls, nreq>>

(* --------- the record system: services/pleasanter_service.py ----------- *)
\* str(app_env).lower() on the environment tags the model feeds in
Lower(tag) == IF tag = "Local" THEN "local" ELSE tag

_dev_debug_enabled == Lower(settings.app_env) \in {"dev", "development", "local"}

\* the readiness guards: each yields 0 when it passes, else the status
\* of the HTTPException it raises
_assert_pleasanter_ready ==
  IF ~settings.pleasanter_base_url \/ ~settings.pleasanter_api_key THEN 400
  ELSE IF settings.pleasanter_mail_site_id = NotSet THEN 400
  ELSE 0

_assert_pleasanter_summary_ready ==
  IF ~settings.pleasanter_base_url \/ ~settings.pleasanter_api_key THEN 400
  ELSE IF settings.pleasanter_summary_site_id = NotSet THEN 400
  ELSE 0

\* the answer of the record system to one call: not ok (unreachable, an
\* HTTP error or a StatusCode other than 200), or the rows of the response
PleFail == [ok |-> FALSE, items |-> <<>>]
PleItems(items) == [ok |-> TRUE, items |-> items]

\* a row of the summary or of the case site
Record(ResultId, Title) == [ResultId |-> ResultId, Title |-> Title]
\* a row of the mail site, with the body column as lines; ResultId NotSet
\* stands for a row without an integer ResultId
Mail(ResultId, Body) == [ResultId |-> ResultId, Body |-> Body]

\* _extract_mail_body: the stripped body, "" when there is none
_extract_mail_body(item) == StripLines(item.Body)

\* the de-duplication by ResultId: the first row of each key is kept; a row
\* without ResultId is keyed by its content
RECURSIVE Dedup(_, _)
Dedup(items, seen) ==
  IF items = <<>> THEN <<>>
  ELSE LET it == Head(items)
           key == IF it.ResultId # NotSet THEN <<"id", it.ResultId>> ELSE <<"row", it>>
       IN IF key \in seen THEN Dedup(Tail(items), seen)
          ELSE <<it>> \o Dedup(Tail(items), seen \cup {key})

\* how the record system answers the calls of one request: the lookup of
\* the summary row, the lookup of the case titled <summary title>A (the one
\* for title B finds no row), and the mails linked to that case, in the
\* order of their UpdatedTime (the fallback query by title finds no row)
World(summary, cases, mails) == [summary |-> summary, cases |-> cases, mails |-> mails]

\* the calls a request issued to the record system, in order
GetSummary == "get_items summary"
GetCase == "get_items case"
GetMail == "get_items mail"
UpdateItem == "update_item"

\* the detail of a 502 raised for a failed call of the record system
PleasanterErrorDetail == {"message", "base_url", "hint", "checks", "pleasanter"}

\* what a handler of the record-system service answers with
CaseOut(calls, detail, conversation_id, conv, emails_total, emails_stored) ==
  [calls |-> calls, detail |-> detail, conversation_id |-> conversation_id, conv |-> conv,
   emails_total |-> emails_total, emails_stored |-> emails_stored]

\* a handler of the record-system service has failed
CaseError(c, op, sess, status, arg, calls, detail) ==
  Respond(c, Done(c, op, "service", sess, status, TRUE, arg,
                  CaseOut(calls, detail, "", NoConv, 0, 0)))

\* the rows the first loop of summarize_case adds for conversation conv:
\* every row with a body and an integer ResultId that no committed Email
\* carries (the session does not autoflush, so a query sees committed rows)
RECURSIVE FirstLoop(_, _)
FirstLoop(items, conv) ==
  IF items = <<>> THEN <<>>
  ELSE LET it == Head(items)
           raw_text == _extract_mail_body(it)
           exists == \E e \in DOMAIN emails :
                       emails[e].pleasanter_mail_result_id = it.ResultId
       IN IF raw_text = <<>> \/ conv = NoConv \/ it.ResultId = NotSet \/ exists
          THEN FirstLoop(Tail(items), conv)
          ELSE <<it>> \o FirstLoop(Tail(items), conv)

\* the rows with a body, which make the prompt
WithBody(items) == SelectSeq(items, LAMBDA it : _extract_mail_body(it) # <<>>)

\* PleasanterService.list_summaries
list_summaries(c, answer) ==
  LET sess == session[c]
      ready == _assert_pleasanter_summary_ready
      Fail(status, calls, detail) ==
        CaseError(c, "list_summaries", sess, status, "", calls, detail)
  IN /\ Free(c)
     /\ IF ready # 0 THEN Fail(ready, <<>>, {})
        ELSE IF ~answer.ok THEN Fail(502, <<GetSummary>>, PleasanterErrorDetail)
        ELSE Respond(c, Done(c, "list_summaries", "service", sess, 200, TRUE, "",
                             CaseOut(<<GetSummary>>, {}, "", NoConv, 0, 0)))
     /\ UNCHANGED <<dbVars, session, llmVars, nreq>>

\* PleasanterService.lookup_summary
lookup_summary(c, case_result_id, answer) ==
  LET sess == session[c]
      ready == _assert_pleasanter_summary_ready
      Fail(status, calls, detail) ==
        CaseError(c, "lookup_summary", sess, status, case_result_id, calls, detail)
  IN /\ Free(c)
     /\ IF ready # 0 THEN Fail(ready, <<>>, {})
        ELSE IF ~answer.ok THEN Fail(502, <<GetSummary>>, PleasanterErrorDetail)
        ELSE IF answer.items = <<>> THEN Fail(404, <<GetSummary>>, {"message"})
        ELSE Respond(c, Done(c, "lookup_summary", "service", sess, 200, TRUE, case_result_id,
                             CaseOut(<<GetSummary>>, {}, "", NoConv, 0, 0)))
     /\ UNCHANGED <<dbVars, session, llmVars, nreq>>

\* a summarize_case request that waits for the LLM service: cid is the
\* thread it sent, conv the conversation it decided on, link and retitle the
\* changes it made to that row, items the de-duplicated mail rows, adds the
\* rows its first loop added as Email objects, calls its record-system calls
\* summarize_case: conv.pleasanter_case_result_id is not None and is not
\* the summary id of the request
linked_elsewhere(case_result_id, summary_result_id) ==
  case_result_id # NoCase /\ case_result_id # summary_result_id

CaseFlight(c, sess, arg, conv, link, retitle, items, adds, calls) ==
  [pc |-> "chat", client |-> c, op |-> "summarize_case", path |-> "service",
   sess |-> sess, arg |-> arg,
   cid |-> IF conv = NoConv THEN "" ELSE conversations[conv].dify_conversation_id,
   conv |-> conv, link |-> link, retitle |-> retitle, items |-> items, adds |-> adds,
   calls |-> calls]

\* what is left of a summarize_case request r after its response: saw is
\* the conversation it found before the chat call, conv the one it ended
\* with, inserted_form whether it added a FormState row, total and stored
\* its emails_total and emails_stored
CaseFinished(r, status, tid, conv, inserted_form, stored) ==
  [pc |-> "done", client |-> r.client, op |-> r.op, path |-> r.path,
   sess |-> r.sess, arg |-> r.arg, saw |-> r.conv, status |-> status,
   tid |-> tid, conv |-> conv, email |-> 0, items |-> r.items,
   inserted_form |-> inserted_form, total |-> Len(r.items), stored |-> stored]

\* the response to the in-flight summarize_case request of client c
CaseFinish(c, status, detail, tid, conv, inserted_form, stored) ==
  /\ req' = [req EXCEPT ![c] = CaseFinished(req[c], status, tid, conv, inserted_form, stored)]
  /\ resp' = Done(c, req[c].op, req[c].path, req[c].sess, status, TRUE, req[c].arg,
                  CaseOut(req[c].calls, detail, tid, conv, Len(req[c].items), stored))
  /\ settings' = settings

\* PleasanterService.summarize_case, up to the chat call; summary_result_id
\* NotSet stands for a body without an integer summary_result_id
summarize_case(c, summary_result_id, conversation_id_in, world) ==
  LET sess == session[c]
      auth == get_current_user(users, sess)
      ready == _assert_pleasanter_ready
      requested_conversation_id == strip_id(conversation_id_in)
      summary_title == IF world.summary.items = <<>> THEN ""
                       ELSE world.summary.items[1].Title
      target_case_result_ids ==
        {world.cases.items[i].ResultId : i \in 1..Len(world.cases.items)} \ {NotSet}
      \* the summary, the cases titled A and B, the mails of each target case
      \* and, when none matches, the fallback query by title
      summary_calls == <<GetSummary>>
      case_calls == summary_calls \o (IF world.cases.ok THEN <<GetCase, GetCase>> ELSE <<GetCase>>)
      mail_calls == case_calls \o (IF world.mails.items = <<>>
                                   THEN <<GetMail, GetMail>> ELSE <<GetMail>>)
      items == Dedup(world.mails.items, {})
      requested == get_by_dify_id(conversations, sess, requested_conversation_id)
      conv == IF requested_conversation_id # "" THEN requested
              ELSE get_by_case_id(conversations, sess, summary_result_id)
      link == /\ requested_conversation_id # "" /\ conv # NoConv
              /\ conversations[conv].pleasanter_case_result_id = NoCase
      retitle == requested_conversation_id = "" /\ conv # NoConv
      Fail(status, calls, detail) ==
        /\ CaseError(c, "summarize_case", sess, status, summary_result_id, calls, detail)
        /\ UNCHANGED llmCalls
  IN /\ Free(c)
     /\ nreq < MaxRequests
     /\ nreq' = nreq + 1
     /\ IF auth # 0
        THEN /\ Respond(c, Done(c, "summarize_case", "service", sess, auth, FALSE,
                                summary_result_id, CaseOut(<<>>, {}, "", NoConv, 0, 0)))
             /\ UNCHANGED llmCalls
        ELSE IF ready # 0 THEN Fail(ready, <<>>, {})
        ELSE IF summary_result_id = NotSet THEN Fail(400, <<>>, {})
        ELSE IF settings.pleasanter_summary_site_id = NotSet THEN Fail(400, <<>>, {})
        ELSE IF settings.pleasanter_case_site_id = NotSet THEN Fail(400, <<>>, {})
        ELSE IF ~world.summary.ok THEN Fail(502, summary_calls, PleasanterErrorDetail)
        ELSE IF world.summary.items = <<>> THEN Fail(404, summary_calls, {"message"})
        ELSE IF summary_title = "" THEN Fail(400, summary_calls, {"message"})
        ELSE IF ~world.cases.ok THEN Fail(502, case_calls, PleasanterErrorDetail)
        ELSE IF target_case_result_ids = {} THEN Fail(404, case_calls, {"message"})
        ELSE IF ~world.mails.ok THEN Fail(502, mail_calls, PleasanterErrorDetail)
        ELSE IF requested_conversation_id # "" /\ conv = NoConv
        THEN Fail(404, mail_calls, {})
        ELSE IF /\ requested_conversation_id # ""
                /\ linked_elsewhere(conversations[conv].pleasanter_case_result_id,
                                    summary_result_id)
        THEN Fail(400, mail_calls, {})
        ELSE IF WithBody(items) = <<>>
        THEN Fail(404, mail_calls,
                  {"message", "debug"} \cup (IF _dev_debug_enabled THEN {"pleasanter"} ELSE {}))
        ELSE Call(c, CaseFlight(c, sess, summary_result_id, conv, link, retitle, items,
                                FirstLoop(items, conv), mail_calls))
     /\ UNCHANGED <<dbVars, session, threads>>

\* the rows the second loop of summarize_case adds for an existing
\* conversation: every row with an integer ResultId that no committed Email
\* carries and that has a body; the rows the first loop added are not
\* flushed, so the query does not see them
RECURSIVE SecondLoop(_)
SecondLoop(items) ==
  IF items = <<>> THEN <<>>
  ELSE LET it == Head(items)
           exists == \E e \in DOMAIN emails :
                       emails[e].pleasanter_mail_result_id = it.ResultId
       IN IF it.ResultId = NotSet \/ exists \/ _extract_mail_body(it) = <<>>
          THEN SecondLoop(Tail(items))
          ELSE <<it>> \o SecondLoop(Tail(items))

\* uq_pleasanter_mail_result_id at the flush of the added Email objects
MailIdsUnique(adds) ==
  /\ \A i, j \in 1..Len(adds) : i # j => adds[i].ResultId # adds[j].ResultId
  /\ \A i \in 1..Len(adds), e \in DOMAIN emails :
       emails[e].pleasanter_mail_result_id # adds[i].ResultId

\* Email(conversation_id, pleasanter_mail_result_id, raw_text, cleaned_text)
NewMail(conv, it) ==
  [conversation_id |-> conv, pleasanter_mail_result_id |-> it.ResultId,
   raw_text |-> _extract_mail_body(it),
   cleaned_text |-> clean_email_text(_extract_mail_body(it))]

\* the emails table with the added rows inserted
WithMails(conv, adds) ==
  [e \in DOMAIN emails \cup (nextEmailId..(nextEmailId + Len(adds) - 1)) |->
     IF e \in DOMAIN emails THEN emails[e] ELSE NewMail(conv, adds[e - nextEmailId + 1])]

\* what the flush does with a new FormState that is assigned to a
\* conversation whose FormState row exists: the row is replaced (the old one
\* deleted as an orphan), or the INSERT is refused by the unique
\* conversation_id of form_states
FormOutcomes == {"replaced", "refused"}

\* PleasanterService.summarize_case, from the answer of the LLM service on
summarize_case_reply(c, reply, outcome) ==
  LET r == req[c]
      dify_conversation_id == IF reply.ok THEN reply.conversation_id ELSE ""
      collides == r.conv = NoConv /\ Conflicts(r.sess, dify_conversation_id, r.arg) # {}
      created == r.conv = NoConv /\ ~collides
      conv == IF r.conv # NoConv THEN r.conv
              ELSE IF collides THEN get_by_case_id(conversations, r.sess, r.arg)
              ELSE nextConvId
      \* the branch of a conversation that was not found assigns a new form
      new_form == r.conv = NoConv
      replaces == new_form /\ conv \in DOMAIN forms
      adds == IF r.conv = NoConv THEN <<>> ELSE r.adds \o SecondLoop(r.items)
      link_refused == /\ r.conv # NoConv /\ r.link
                      /\ \E k \in DOMAIN conversations :
                           /\ k # conv /\ conversations[k].user_id = r.sess
                           /\ conversations[k].pleasanter_case_result_id = r.arg
      form == IF new_form THEN NewForm ELSE LoadForm(conv)
      merges == reply.ok /\ ParsedTruthy(reply.parsed)
      merged == IF merges THEN apply_parsed_to_form(form, reply.parsed.obj) ELSE form
      writes_form == new_form \/ merges
      row == IF created
             THEN NewConversation(r.sess, dify_conversation_id, "summary", r.arg)
             ELSE [conversations[conv] EXCEPT
                     !.pleasanter_case_result_id = IF r.link THEN r.arg ELSE @,
                     !.title = IF r.retitle THEN "summary" ELSE @,
                     !.dify_conversation_id = IF r.conv # NoConv
                                              THEN dify_conversation_id ELSE @]
      \* the conversations as the request had changed them before the call
      pending == IF r.conv \notin DOMAIN conversations THEN conversations
                 ELSE AddRow(conversations, r.conv,
                             [conversations[r.conv] EXCEPT
                                !.pleasanter_case_result_id = IF r.link THEN r.arg ELSE @,
                                !.title = IF r.retitle THEN "summary" ELSE @])
  IN /\ r.pc = "chat" /\ r.op = "summarize_case"
     /\ reply \in Replies(r)
     /\ outcome \in FormOutcomes
     /\ threads' = Threads(reply)
     /\ IF ~reply.ok
        THEN /\ CaseFinish(c, 502, {"message", "base_url", "hint"}, "", NoConv, FALSE, 0)
             /\ conversations' = rollback(conversations, pending)
             /\ UNCHANGED <<users, nextUserId, forms, emails, nextConvId, nextEmailId>>
             /\ merge' = NoMerge
        ELSE IF dify_conversation_id = ""
        THEN /\ CaseFinish(c, 502, {}, "", NoConv, FALSE, 0)
             /\ conversations' = rollback(conversations, pending)
             /\ UNCHANGED <<users, nextUserId, forms, emails, nextConvId, nextEmailId>>
             /\ merge' = NoMerge
        ELSE IF \/ conv = NoConv \/ (~created /\ conv \notin DOMAIN conversations)
                \/ ~MailIdsUnique(adds) \/ link_refused
                \/ (replaces /\ outcome = "refused")
        THEN /\ CaseFinish(c, 500, {}, dify_conversation_id, NoConv, FALSE, Len(adds))
             /\ UNCHANGED dbVars /\ merge' = NoMerge
        ELSE /\ created => nextConvId <= MaxConvs
             /\ nextEmailId + Len(adds) - 1 <= MaxEmails
             /\ conversations' = AddRow(conversations, conv, row)
             /\ nextConvId' = IF created THEN nextConvId + 1 ELSE nextConvId
             /\ forms' = IF ~writes_form THEN forms
                         ELSE IF new_form THEN AddRow(forms, conv, merged)
                         ELSE AddRow(forms, conv, StoreForm(conv, form, merged))
             /\ emails' = WithMails(conv, adds)
             /\ nextEmailId' = nextEmailId + Len(adds)
             /\ merge' = IF merges
                         THEN Merged(r, "service", form, reply.parsed.obj, forms'[conv])
                         ELSE NoMerge
             /\ CaseFinish(c, 200, {}, row.dify_conversation_id, conv, new_form, Len(adds))
             /\ UNCHANGED <<users, nextUserId>>
     /\ UNCHANGED <<session, llmCalls, nreq>>

\* str(conv.title).startswith("案件サマリ"): summarize_case gives the title
\* "案件サマリ <title>" (here "summary"), get_or_create_for_case "案件 <id>"
\* ("case"), summarize_email "メール要約" ("mail")
IsSummaryTitle(title) == title = "summary"

\* PleasanterService.save_summary; ok is the answer of the record system
\* to the update
save_summary(c, conversation_id, ok) ==
  LET sess == session[c]
      auth == get_current_user(users, sess)
      ready == _assert_pleasanter_ready
      conv == get_by_dify_id(conversations, sess, conversation_id)
      Fail(status, calls, detail) ==
        CaseError(c, "save_summary", sess, status, conversation_id, calls, detail)
  IN /\ Free(c)
     /\ IF auth # 0
        THEN Respond(c, Done(c, "save_summary", "service", sess, auth, FALSE, conversation_id,
                             CaseOut(<<>>, {}, "", NoConv, 0, 0)))
        ELSE IF ready # 0 THEN Fail(ready, <<>>, {})
        ELSE IF settings.pleasanter_summary_site_id = NotSet THEN Fail(400, <<>>, {})
        ELSE IF conversation_id = "" THEN Fail(400, <<>>, {})
        ELSE IF conv = NoConv THEN Fail(404, <<>>, {})
        ELSE IF conversations[conv].pleasanter_case_result_id = NoCase THEN Fail(400, <<>>, {})
        ELSE IF conv \notin DOMAIN forms THEN Fail(400, <<>>, {})
        ELSE IF ~ok THEN Fail(502, <<UpdateItem>>, {"message", "pleasanter_error"})
        ELSE Respond(c, Done(c, "save_summary", "service", sess, 200, TRUE, conversation_id,
                             CaseOut(<<UpdateItem>>, {}, conversation_id, conv, 0, 0)))
     /\ UNCHANGED <<dbVars, session, llmVars, nreq>>

\* PleasanterService.save_case; ok is the answer of the record system to
\* the update.  Without a base URL the client posts to a URL without a
\* scheme, which the HTTP library refuses with an error that nothing catches
save_case(c, conversation_id_in, ok) ==
  LET sess == session[c]
      auth == get_current_user(users, sess)
      conversation_id == strip_id(conversation_id_in)
      conv == get_by_dify_id(conversations, sess, conversation_id)
      Fail(status, calls, detail) ==
        CaseError(c, "save_case", sess, status, conversation_id, calls, detail)
  IN /\ Free(c)
     /\ IF auth # 0
        THEN Respond(c, Done(c, "save_case", "service", sess, auth, FALSE, conversation_id,
                             CaseOut(<<>>, {}, "", NoConv, 0, 0)))
        ELSE IF conversation_id = "" THEN Fail(400, <<>>, {})
        ELSE IF conv = NoConv THEN Fail(404, <<>>, {})
        ELSE IF IsSummaryTitle(conversations[conv].title) THEN Fail(400, <<>>, {})
        ELSE IF conversations[conv].pleasanter_case_result_id = NoCase THEN Fail(400, <<>>, {})
        ELSE IF conv \notin DOMAIN forms THEN Fail(400, <<>>, {})
        ELSE IF ~settings.pleasanter_base_url THEN Fail(500, <<>>, {})
        ELSE IF ~ok THEN Fail(502, <<UpdateItem>>, {"message", "pleasanter_error"})
        ELSE Respond(c, Done(c, "save_case", "service", sess, 200, TRUE, conversation_id,
                             CaseOut(<<UpdateItem>>, {}, conversation_id, conv, 0, 0)))
     /\ UNCHANGED <<dbVars, session, llmVars, nreq>>

(* ----------- the transactional scope: db.py, dependencies.py ----------- *)
\* what the unit of work inside a scope, or the commit, can raise; the last
\* two derive from BaseException and not from Exception
NoException == "none"
Raisable == {"HTTPException", "IntegrityError", "GeneratorExit", "KeyboardInterrupt"}
IsException(exc) == exc \in {"HTTPException", "IntegrityError"}

\* which exceptions a clause `except Exception:` would catch
except_Exception(exc) == IsException(exc)
\* which exceptions the clause `except:` of session_scope and get_db catches
except_clause(exc) == TRUE

\* a scope between SessionLocal() and the end of its finally clause: where
\* control is, the rows added to the session and not yet written, what was
\* raised inside (thrown, and in which part), what leaves the scope, and
\* how often the session was committed, rolled back and closed
InScope(c, fn, at, pending, thrown, part, raised, commits, rollbacks, closes, open) ==
  [pc |-> "scope", client |-> c, op |-> fn, at |-> at, pending |-> pending,
   thrown |-> thrown, part |-> part, raised |-> raised, commits |-> commits,
   rollbacks |-> rollbacks, closes |-> closes, open |-> open]

\* a step of the scope of client c that leaves the tables alone
ScopeStep(c, r) ==
  /\ req' = [req EXCEPT ![c] = r]
  /\ UNCHANGED <<convVars, session, llmVars, resp, merge, settings>>

\* where an exception raised inside the try block takes control
Handler(exc) == IF except_clause(exc) THEN "except" ELSE "finally"

\* session = SessionLocal(); the try block is entered
scope_enter(c, fn) ==
  /\ req[c].pc \in {"idle", "done"} \/ (req[c].pc = "scope" /\ req[c].at = "exit")
  /\ nreq < MaxRequests
  /\ nreq' = nreq + 1
  /\ ScopeStep(c, InScope(c, fn, "body", {}, NoException, "", NoException, 0, 0, 0, TRUE))
  /\ UNCHANGED <<users, nextUserId>>

\* yield session: the unit of work adds a user row to the session (one row
\* at most); nothing is written before the commit (autoflush is off)
scope_body_add(c, username) ==
  LET r == req[c]
  IN /\ r.pc = "scope" /\ r.at = "body" /\ r.pending = {}
     /\ ScopeStep(c, [r EXCEPT !.pending = {username}])
     /\ UNCHANGED <<users, nextUserId, nreq>>

\* yield session: the unit of work completes
scope_body_return(c) ==
  LET r == req[c]
  IN /\ r.pc = "scope" /\ r.at = "body"
     /\ ScopeStep(c, [r EXCEPT !.at = "commit"])
     /\ UNCHANGED <<users, nextUserId, nreq>>

\* yield session: the unit of work raises, or the generator is closed
scope_body_raise(c, exc) ==
  LET r == req[c]
  IN /\ r.pc = "scope" /\ r.at = "body"
     /\ ScopeStep(c, [r EXCEPT !.at = Handler(exc), !.thrown = exc, !.part = "body"])
     /\ UNCHANGED <<users, nextUserId, nreq>>

\* session.commit(): the pending row is written, or the unique username
\* refuses it and the commit raises
scope_commit(c) ==
  LET r == req[c]
      refused == \E u \in r.pending : UsersNamed(users, u) # {}
      exc == "IntegrityError"
  IN /\ r.pc = "scope" /\ r.at = "commit"
     /\ IF refused
        THEN /\ ScopeStep(c, [r EXCEPT !.at = Handler(exc), !.thrown = exc,
                                        !.part = "commit"])
             /\ UNCHANGED <<users, nextUserId>>
        ELSE /\ r.pending # {} => nextUserId <= MaxUsers
             /\ users' = IF r.pending = {} THEN users
                          ELSE AddRow(users, nextUserId,
                                      [username |-> CHOOSE u \in r.pending : TRUE,
                                       password_hash |-> hash_password("pw"),
                                       role |-> _ROLE_USER])
             /\ nextUserId' = IF r.pending = {} THEN nextUserId ELSE nextUserId + 1
             /\ ScopeStep(c, [r EXCEPT !.at = "finally", !.pending = {},
                                        !.commits = @ + 1])
     /\ UNCHANGED nreq

\* except: session.rollback(); raise
scope_rollback(c) ==
  LET r == req[c]
  IN /\ r.pc = "scope" /\ r.at = "except"
     /\ ScopeStep(c, [r EXCEPT !.at = "finally", !.pending = {}, !.rollbacks = @ + 1])
     /\ UNCHANGED <<users, nextUserId, nreq>>

\* finally: session.close(); the scope is left, with the exception in
\* flight if there is one
scope_close(c) ==
  LET r == req[c]
  IN /\ r.pc = "scope" /\ r.at = "finally"
     /\ ScopeStep(c, [r EXCEPT !.at = "exit", !.pending = {}, !.closes = @ + 1,
                                !.open = FALSE, !.raised = r.thrown])
     /\ UNCHANGED <<users, nextUserId, nreq>>

(* ------------- the request middleware: request_debug.py --------------- *)
\* a response without the X-Request-ID header, a JSON body without request_id
NoHeader == 0

\* the response of a handler: JSONResponse(status_code, content)
JSONResponse(status_code, error, request_id, traceback) ==
  [status_code |-> status_code, x_request_id |-> NoHeader,
   content |-> [error |-> error, request_id |-> request_id, traceback |-> traceback]]

\* resp.headers["X-Request-ID"] = request_id
WithRequestId(response, request_id) == [response EXCEPT !.x_request_id = request_id]

\* the 500 of the middleware, had it been returned without the header
error_response_bare(request_id) ==
  JSONResponse(500, "internal server error", request_id, _dev_debug_enabled)
\* except Exception: the 500 the middleware answers an uncaught exception with
error_response(request_id) ==
  WithRequestId(JSONResponse(500, "internal server error", request_id, _dev_debug_enabled),
                request_id)

\* main.py http_exception_handler: the response to an HTTPException, with
\* the id found in request.state
http_exception_handler(state_request_id, status_code) ==
  JSONResponse(status_code, "detail", state_request_id, FALSE)

\* a request inside the middleware: its generated id, the id stored in
\* request.state, what call_next did, and the response so far
InMiddleware(c, at, request_id, outcome, response) ==
  [pc |-> "mw", client |-> c, op |-> "request_debug_middleware", at |-> at,
   request_id |-> request_id, state_request_id |-> request_id, outcome |-> outcome,
   response |-> response]

MiddlewareStep(c, r) ==
  /\ req' = [req EXCEPT ![c] = r]
  /\ UNCHANGED <<dbVars, session, llmVars, resp, merge, settings>>

\* request_id = uuid.uuid4().hex; request.state.request_id = request_id:
\* every request gets an id no other request has
request_debug_middleware(c) ==
  /\ req[c].pc \in {"idle", "done"} \/ (req[c].pc = "mw" /\ req[c].at = "sent")
  /\ nreq < MaxRequests
  /\ nreq' = nreq + 1
  /\ MiddlewareStep(c, InMiddleware(c, "call_next", nreq + 1, "",
                                     JSONResponse(0, "", NoHeader, FALSE)))

\* call_next returns the response of the handler
call_next_returns(c, status_code) ==
  LET r == req[c]
  IN /\ r.pc = "mw" /\ r.at = "call_next"
     /\ MiddlewareStep(c, [r EXCEPT !.at = "returned", !.outcome = "response",
                                     !.response = JSONResponse(status_code, "", NoHeader, FALSE)])
     /\ UNCHANGED nreq

\* the handler raises an HTTPException: call_next returns the response of
\* http_exception_handler
call_next_http_error(c, status_code) ==
  LET r == req[c]
  IN /\ r.pc = "mw" /\ r.at = "call_next"
     /\ MiddlewareStep(c, [r EXCEPT !.at = "returned", !.outcome = "http_error",
                                     !.response = http_exception_handler(r.state_request_id,
                                                                         status_code)])
     /\ UNCHANGED nreq

\* the handler raises an exception nothing handles: call_next raises it
call_next_raises(c) ==
  LET r == req[c]
  IN /\ r.pc = "mw" /\ r.at = "call_next"
     /\ MiddlewareStep(c, [r EXCEPT !.at = "raised", !.outcome = "exception"])
     /\ UNCHANGED nreq

\* except Exception: ... return resp
middleware_except(c) ==
  LET r == req[c]
  IN /\ r.pc = "mw" /\ r.at = "raised"
     /\ MiddlewareStep(c, [r EXCEPT !.at = "sent", !.response = error_response(r.request_id)])
     /\ UNCHANGED nreq

\* response.headers["X-Request-ID"] = request_id; return response
middleware_return(c) ==
  LET r == req[c]
  IN /\ r.pc = "mw" /\ r.at = "returned"
     /\ MiddlewareStep(c, [r EXCEPT !.at = "sent",
                                     !.response = WithRequestId(r.response, r.request_id)])
     /\ UNCHANGED nreq

(* ---------------- the JSON extractor: utils/json_extract.py ------------ *)
\* the characters answers are made of: braces, brackets, "k" for a key with
\* its colon, "1" for a number, "x" for a character of prose, and the blank
JsonChars == {"{", "}", "[", "]", "k", "1", "x", " "}

JNum == [t |-> "num"]
JList(items) == [t |-> "list", items |-> items]
JDict(obj) == [t |-> "dict", obj |-> obj]

\* the decoder has failed / has read value v and stands at position next
NoValue == [ok |-> FALSE, v |-> JNull, next |-> 0]
Value(v, next) == [ok |-> TRUE, v |-> v, next |-> next]

\* the position of the first character from i on that is not a blank
RECURSIVE SkipBlanks(_, _)
SkipBlanks(s, i) == IF i <= Len(s) /\ s[i] = " " THEN SkipBlanks(s, i + 1) ELSE i

\* the JSON decoder reading one value of s at position i: a number, an array
\* of no or one value, an object of no or one member
RECURSIVE Decode(_, _)
Decode(s, i) ==
  LET At(j) == IF j <= Len(s) THEN s[j] ELSE "end"
      j == SkipBlanks(s, i + 1)
  IN IF At(i) = "1" THEN Value(JNum, i + 1)
     ELSE IF At(i) = "["
     THEN IF At(j) = "]" THEN Value(JList(<<>>), j + 1)
          ELSE LET inner == Decode(s, j)
                   close == IF inner.ok THEN SkipBlanks(s, inner.next) ELSE 0
               IN IF inner.ok /\ At(close) = "]"
                  THEN Value(JList(<<inner.v>>), close + 1) ELSE NoValue
     ELSE IF At(i) = "{"
     THEN IF At(j) = "}" THEN Value(JDict(EmptyObject), j + 1)
          ELSE IF At(j) # "k" THEN NoValue
          ELSE LET inner == Decode(s, SkipBlanks(s, j + 1))
                   close == IF inner.ok THEN SkipBlanks(s, inner.next) ELSE 0
               IN IF inner.ok /\ At(close) = "}"
                  THEN Value(JDict([x \in {"k"} |-> inner.v]), close + 1) ELSE NoValue
     ELSE NoValue

\* json.loads(s): the value, if s is one value and blanks around it
json_loads(s) ==
  LET r == Decode(s, SkipBlanks(s, 1))
  IN IF r.ok /\ SkipBlanks(s, r.next) > Len(s) THEN r ELSE NoValue

\* re.search(r"\{[\s\S]*\}", s).group(0): from the first opening brace to
\* the last closing brace after it; the empty text when there is no match
brace_search(s) ==
  LET opens == {i \in 1..Len(s) : s[i] = "{"}
      closes == {i \in 1..Len(s) : s[i] = "}" /\ \E o \in opens : o < i}
  IN IF closes = {} THEN <<>>
     ELSE SubSeq(s, First(opens), CHOOSE i \in closes : \A j \in closes : j <= i)

\* `return v if isinstance(v, dict) else None`
dict_or_none(r) == IF r.ok /\ r.v.t = "dict" THEN Parsed(r.v.obj) ELSE NoParsed

\* try_parse_json_answer
try_parse_json_answer(answer) ==
  LET s == strip(answer)
      whole == json_loads(s)
      m == brace_search(s)
  IN IF s = <<>> THEN NoParsed
     ELSE IF whole.ok THEN dict_or_none(whole)
     ELSE IF m = <<>> THEN NoParsed
     ELSE dict_or_none(json_loads(m))

\* the answer of the LLM service that a request has parsed
Extracted(answer, parsed) == [pc |-> "json", answer |-> answer, parsed |-> parsed]

\* `parsed = try_parse_json_answer(answer) if isinstance(answer, str) else None`
parse_answer(c, answer) ==
  /\ req[c].pc = "idle"
  /\ req' = [req EXCEPT ![c] = Extracted(answer, try_parse_json_answer(answer))]
  /\ UNCHANGED <<dbVars, session, llmVars, resp, merge, nreq, settings>>

(* ------------- delete-user as a transaction: user_service.py, db.py ---- *)
\* a delete-user request whose transaction has checked the target, has
\* marked the row for deletion and has not committed yet
Deleting(c, sess, target) ==
  [pc |-> "delete", client |-> c, sess |-> sess, target |-> target]

\* UserService.delete_user inside a transaction: the checks read the rows
\* committed so far, session.delete marks the target, nothing is written
\* before the commit (autoflush is off)
delete_user_begin(c, target) ==
  LET sess == session[c]
      auth == require_admin(users, sess)
      r == delete_user(users, sess, target)
      Reply(status, ran) ==
        /\ resp' = Done(c, "delete_user", "transaction", sess, status, ran, target, "")
        /\ req' = req
  IN /\ req[c].pc = "idle"
     /\ IF auth # 0 THEN Reply(auth, FALSE)
        ELSE IF r.status # 0 THEN Reply(r.status, TRUE)
        ELSE req' = [req EXCEPT ![c] = Deleting(c, sess, target)] /\ resp' = resp
     /\ UNCHANGED <<dbVars, session, llmVars, merge, nreq, settings>>

\* session.commit() of the scope: the DELETE of the marked row is flushed
\* and committed, with the rows that cascade from it
delete_user_commit(c) ==
  LET r == req[c]
      gone == ConvsOf(r.target)
  IN /\ r.pc = "delete"
     /\ users' = DropRows(users, {r.target})
     /\ conversations' = DropRows(conversations, gone)
     /\ forms' = DropRows(forms, gone)
     /\ emails' = DropRows(emails, EmailsOf(gone))
     /\ req' = [req EXCEPT ![c] = Idle]
     /\ resp' = Done(c, "delete_user", "transaction", r.sess, 303, TRUE, r.target,
                     IF r.target \in DOMAIN users THEN users[r.target].role ELSE "")
     /\ UNCHANGED <<nextUserId, nextConvId, nextEmailId, session, llmVars, merge, nreq,
                    settings>>

(* ------------------------------ inputs --------------------------------- *)
Usernames == {admin_username, "bob"}
Passwords == {admin_password, "pw", ""}
RoleInputs == {"admin", "Admin ", "user", " USER", "Guest"}

\* request bodies of update-form and chat-UI write
FormPayloads ==
  {EmptyObject,
   Pair("summary", JStr(Over), "include_body", JBool(FALSE)),
   Pair("user_comment", JStr(<<"a">>), "cause", JStr(<<"a">>)),
   Pair("instruction", JStr(<<"a">>), "action", JStr(Over)),
   Pair("message", JStr(<<" ">>), "body", JNull),
   Pair("user_comment", JStr(<<"a">>), "body", JNull)}

\* the thread ids requests name: none, a thread id, one with a blank
IdInputs == {"", " t1"} \cup ThreadIds
\* the linked-record ids requests name
CaseIds == 1..MaxCases
\* the email texts requests carry, as lines
EmailInputs == {JNull, JStr(<<"">>), JStr(<<"hello", "> quoted", "Sent: now", "bye">>)}
InstructionInputs == {JNull, JStr(<<" ">>), JStr(<<"a">>)}

(* ----------- specification: accounts, sessions and identity ------------ *)
InitUsers ==
  /\ users = EmptyTable /\ nextUserId = 1
  /\ conversations = EmptyTable /\ forms = EmptyTable /\ emails = EmptyTable
  /\ nextConvId = 1 /\ nextEmailId = 1
  /\ session = [c \in Clients |-> NoUser]
  /\ threads = 0 /\ llmCalls = 0
  /\ req = [c \in Clients |-> Idle]
  /\ resp = Started
  /\ merge = NoMerge
  /\ nreq = 0
  /\ settings = Configured("dev")

NextUsers ==
  \/ ensure_admin_exists
  \/ \E c \in Clients, u \in Usernames, p \in Passwords : login(c, u, p)
  \/ \E c \in Clients : logout(c)
  \/ \E c \in Clients, u \in Usernames, p \in Passwords, r \in RoleInputs :
       admin_create_user(c, u, p, r)
  \/ \E c \in Clients, t \in 1..MaxUsers, p \in Passwords : admin_change_password(c, t, p)
  \/ \E c \in Clients, t \in 1..MaxUsers : admin_delete_user(c, t)
  \/ \E c \in Clients : api_me(c)
  \/ \E c \in Clients : api_conversations(c)
  \/ \E c \in Clients : api_create_conversation(c)
  \/ \E c \in Clients, t \in ThreadIds : api_get_form(c, t)

SpecUsers == InitUsers /\ [][NextUsers]_vars

(* -------------- specification: the form of a conversation -------------- *)
\* the application has started and the administrator has logged in on c1
Bootstrapped ==
  /\ users = AddRow(EmptyTable, 1, [username |-> admin_username,
                                    password_hash |-> hash_password(admin_password),
                                    role |-> _ROLE_ADMIN])
  /\ nextUserId = 2
  /\ conversations = EmptyTable /\ forms = EmptyTable /\ emails = EmptyTable
  /\ nextConvId = 1 /\ nextEmailId = 1
  /\ llmCalls = 0
  /\ req = [c \in Clients |-> Idle]
  /\ resp = Started
  /\ merge = NoMerge
  /\ nreq = 0

InitForm ==
  /\ Bootstrapped
  /\ threads = 0
  /\ settings = Configured("dev")
  /\ session = [c \in Clients |-> IF c = "c1" THEN 1 ELSE NoUser]

\* the client at work in this specification
FormClients == {"c1"}

NextForm ==
  \/ \E c \in FormClients, id \in IdInputs, e \in EmailInputs : summarize_email(c, id, e)
  \/ \E c \in FormClients, reply \in ReplyInputs : summarize_email_reply(c, reply)
  \/ \E c \in FormClients, id \in IdInputs, i \in InstructionInputs : form_ai_edit(c, id, i)
  \/ \E c \in FormClients, reply \in ReplyInputs : form_ai_edit_reply(c, reply)
  \/ \E c \in FormClients, id \in ThreadIds, p \in FormPayloads : chat_ui_post(c, id, p)
  \/ \E c \in FormClients, reply \in ReplyInputs : chat_ui_post_reply(c, reply)
  \/ \E c \in FormClients, id \in IdInputs, p \in FormPayloads : update_form(c, id, p)
  \/ \E c \in FormClients, id \in ThreadIds : get_form(c, id)
  \/ \E c \in FormClients, id \in IdInputs, e \in EmailInputs : api_summarize_email(c, id, e)
  \/ \E c \in FormClients, reply \in ReplyInputs : api_summarize_email_reply(c, reply)
  \/ \E c \in FormClients, id \in IdInputs, i \in InstructionInputs : api_form_ai_edit(c, id, i)
  \/ \E c \in FormClients, reply \in ReplyInputs : api_form_ai_edit_reply(c, reply)
  \/ \E c \in FormClients, id \in IdInputs, p \in FormPayloads : api_chat_ui(c, id, p)
  \/ \E c \in FormClients, reply \in ReplyInputs : api_chat_ui_reply(c, reply)
  \/ \E c \in FormClients, id \in IdInputs, p \in FormPayloads : api_update_form(c, id, p)
  \/ \E c \in FormClients, id \in ThreadIds : api_get_form(c, id)

SpecForm == InitForm /\ [][NextForm]_vars

(* ------------ specification: two requests of one user overlap ---------- *)
\* the administrator has logged in on both clients; the LLM service may
\* hold a thread that POST /api/chat opened and no conversation row names
InitRace ==
  /\ Bootstrapped
  /\ threads \in {0, 1}
  /\ settings = Configured("dev")
  /\ session = [c \in Clients |-> 1]

RaceReplies ==
  {Failure} \cup {Answer(id, p) : id \in {""} \cup ThreadIds,
                                  p \in {NoParsed, Parsed(Single("cause", JStr(<<"a">>)))}}
RaceEmails == {JStr(<<"hello">>), JStr(<<"bye", "> quoted">>)}
RaceIds == {""} \cup ThreadIds

NextRace ==
  \/ \E c \in Clients, id \in RaceIds, e \in RaceEmails : summarize_email(c, id, e)
  \/ \E c \in Clients, reply \in RaceReplies : summarize_email_reply(c, reply)
  \/ \E c \in Clients, id \in RaceIds, e \in RaceEmails : api_summarize_email(c, id, e)
  \/ \E c \in Clients, reply \in RaceReplies : api_summarize_email_reply(c, reply)
  \/ \E c \in Clients, k \in CaseIds : get_or_create_for_case(c, k)
  \/ \E c \in Clients, reply \in RaceReplies : get_or_create_for_case_reply(c, reply)
  \/ \E c \in Clients, k \in CaseIds : _get_or_create_conversation_for_case(c, k)
  \/ \E c \in Clients, reply \in RaceReplies :
       _get_or_create_conversation_for_case_reply(c, reply)
  \/ \E c \in Clients, id \in RaceIds : api_chat(c, id, JStr(<<"a">>))
  \/ \E c \in Clients, reply \in RaceReplies : api_chat_reply(c, reply)

SpecRace == InitRace /\ [][NextRace]_vars

(* ----------- specification: the record-system workflow ---------------- *)
\* the mail rows the record system holds for a case, by UpdatedTime
Mailboxes ==
  {<<>>,
   <<Mail(11, <<"hello">>)>>,
   <<Mail(NotSet, <<"hello", "Sent: now", "old">>), Mail(12, <<>>)>>,
   <<Mail(11, <<"hello">>), Mail(11, <<"hello">>)>>}

\* how the record system answers the calls of a summarize_case request for
\* the summary row sid
Worlds(sid) ==
  LET none == PleItems(<<>>)
      summary == PleItems(<<Record(sid, "S")>>)
      case == PleItems(<<Record(7, "SA")>>)
  IN {World(PleFail, none, none), World(none, none, none),
      World(PleItems(<<Record(sid, "")>>), none, none),
      World(summary, PleFail, none), World(summary, none, none),
      World(summary, case, PleFail)}
     \cup {World(summary, case, PleItems(box)) : box \in Mailboxes}

\* the record system has the summary, one case and one mail
LinkWorlds(sid) ==
  {World(PleItems(<<Record(sid, "S")>>), PleItems(<<Record(7, "SA")>>), PleItems(box)) :
     box \in Mailboxes}

\* the settings of the deployments: everything configured, under three
\* environment tags, and one setting of the record system left out
SettingsInputs ==
  {Configured("dev"), Configured("Local"), Configured("production"),
   [Configured("production") EXCEPT !.pleasanter_base_url = FALSE],
   [Configured("production") EXCEPT !.pleasanter_api_key = FALSE],
   [Configured("production") EXCEPT !.pleasanter_mail_site_id = NotSet],
   [Configured("production") EXCEPT !.pleasanter_summary_site_id = NotSet],
   [Configured("production") EXCEPT !.pleasanter_case_site_id = NotSet]}

SummaryIds == {NotSet} \cup CaseIds
CaseThreadIds == {"", "t1"}
CaseReplies ==
  {Failure} \cup {Answer(id, p) : id \in {""} \cup ThreadIds,
                                  p \in {NoParsed, Parsed(Single("cause", JStr(<<"a">>)))}}
CaseEmails == {JStr(<<"hello">>)}

\* the administrator has logged in on both clients
InitCase ==
  /\ Bootstrapped
  /\ threads = 0
  /\ session = [c \in Clients |-> 1]
  /\ settings \in SettingsInputs

NextCase ==
  \/ \E c \in Clients, sid \in SummaryIds, id \in CaseThreadIds :
       \E world \in Worlds(sid) : summarize_case(c, sid, id, world)
  \/ \E c \in Clients, reply \in CaseReplies, outcome \in FormOutcomes :
       summarize_case_reply(c, reply, outcome)
  \/ \E c \in Clients, id \in CaseThreadIds, e \in CaseEmails : summarize_email(c, id, e)
  \/ \E c \in Clients, reply \in CaseReplies : summarize_email_reply(c, reply)
  \/ \E c \in Clients, k \in CaseIds : get_or_create_for_case(c, k)
  \/ \E c \in Clients, reply \in CaseReplies : get_or_create_for_case_reply(c, reply)
  \/ \E c \in Clients, answer \in {PleFail, PleItems(<<>>)} : list_summaries(c, answer)
  \/ \E c \in Clients, k \in CaseIds :
       \E answer \in {PleFail, PleItems(<<>>), PleItems(<<Record(k, "S")>>)} :
          lookup_summary(c, k, answer)
  \/ \E c \in Clients, id \in CaseThreadIds, ok \in BOOLEAN : save_summary(c, id, ok)
  \/ \E c \in Clients, id \in CaseThreadIds, ok \in BOOLEAN : save_case(c, id, ok)

SpecCase == InitCase /\ [][NextCase]_vars

(* ------- specification: accounts that own conversations and emails ----- *)
\* the administrator works on c1 and creates, serves and deletes accounts;
\* whoever logs in on a client may have emails summarized
InitDelete ==
  /\ Bootstrapped
  /\ threads = 0
  /\ settings = Configured("dev")
  /\ session = [c \in Clients |-> IF c = "c1" THEN 1 ELSE NoUser]

NextDelete ==
  \/ \E c \in Clients, u \in Usernames, p \in {"pw"} : login(c, u, p)
  \/ \E c \in Clients, u \in Usernames, r \in {"user", "admin"} :
       admin_create_user(c, u, "pw", r)
  \/ \E c \in Clients, t \in 1..MaxUsers : admin_delete_user(c, t)
  \/ \E c \in Clients, id \in CaseThreadIds, e \in CaseEmails : summarize_email(c, id, e)
  \/ \E c \in Clients, reply \in CaseReplies : summarize_email_reply(c, reply)

SpecDelete == InitDelete /\ [][NextDelete]_vars

(* ------------- specification: the transactional scope ----------------- *)
ScopeFunctions == {"session_scope", "get_db"}

NextScope ==
  \/ \E c \in Clients, fn \in ScopeFunctions : scope_enter(c, fn)
  \/ \E c \in Clients, u \in Usernames : scope_body_add(c, u)
  \/ \E c \in Clients : scope_body_return(c)
  \/ \E c \in Clients, exc \in Raisable : scope_body_raise(c, exc)
  \/ \E c \in Clients : scope_commit(c)
  \/ \E c \in Clients : scope_rollback(c)
  \/ \E c \in Clients : scope_close(c)

SpecScope == InitForm /\ [][NextScope]_vars

(* --------------- specification: the request middleware ---------------- *)
HandlerStatuses == {200, 303}
HandlerErrors == {400, 401, 404, 502}

InitRequest ==
  /\ Bootstrapped
  /\ threads = 0
  /\ session = [c \in Clients |-> NoUser]
  /\ settings \in {Configured("dev"), Configured("production")}

NextRequest ==
  \/ \E c \in Clients : request_debug_middleware(c)
  \/ \E c \in Clients, st \in HandlerStatuses : call_next_returns(c, st)
  \/ \E c \in Clients, st \in HandlerErrors : call_next_http_error(c, st)
  \/ \E c \in Clients : call_next_raises(c)
  \/ \E c \in Clients : middleware_except(c)
  \/ \E c \in Clients : middleware_return(c)

SpecRequest == InitRequest /\ [][NextRequest]_vars

(* ----------------- specification: the email sanitizer ------------------ *)
\* the lines texts are made of: plain, blank, quoted, and thread separators
CleanLines ==
  {"hello", "", "> quoted", "From: a", "Sent: now", "-----Original Message-----"}

RECURSIVE TextsOf(_)
TextsOf(n) ==
  IF n = 0 THEN {<<>>}
  ELSE LET shorter == TextsOf(n - 1)
       IN shorter \cup {Append(t, ln) : t \in {u \in shorter : Len(u) = n - 1},
                                         ln \in CleanLines}

\* a text that has been through the sanitizer `times` times: the text it
\* was, what the first pass made of it, and what it is now
Sanitized(raw, once, text, times) ==
  [pc |-> "clean", raw |-> raw, once |-> once, text |-> text, times |-> times]

InitClean ==
  /\ Bootstrapped
  /\ threads = 0
  /\ settings = Configured("dev")
  /\ session = [c \in Clients |-> NoUser]

\* a client brings a text
take_text(c, raw) ==
  /\ req[c].pc = "idle"
  /\ req' = [req EXCEPT ![c] = Sanitized(raw, <<>>, raw, 0)]
  /\ UNCHANGED <<dbVars, session, llmVars, resp, merge, nreq, settings>>

\* clean_email_text applied to the text of client c, once and once more
apply_clean_email_text(c) ==
  LET r == req[c]
      cleaned == clean_email_text(r.text)
  IN /\ r.pc = "clean" /\ r.times < 2
     /\ req' = [req EXCEPT ![c] = Sanitized(r.raw, IF r.times = 0 THEN cleaned ELSE r.once,
                                              cleaned, r.times + 1)]
     /\ UNCHANGED <<dbVars, session, llmVars, resp, merge, nreq, settings>>

NextClean ==
  \/ \E raw \in TextsOf(MaxLines) : take_text("c1", raw)
  \/ apply_clean_email_text("c1")

SpecClean == InitClean /\ [][NextClean]_vars

(* ----------------- specification: the JSON extractor ------------------- *)
RECURSIVE AnswersOf(_)
AnswersOf(n) ==
  IF n = 0 THEN {<<>>}
  ELSE LET shorter == AnswersOf(n - 1)
       IN shorter \cup {Append(t, ch) : t \in {u \in shorter : Len(u) = n - 1},
                                        ch \in JsonChars}

NextJson == \E answer \in AnswersOf(MaxChars) : parse_answer("c1", answer)

SpecJson == InitClean /\ [][NextJson]_vars

(* -------- specification: two users and the conversations they own ------ *)
\* the administrator and a second account, each logged in on one client
InitOwners ==
  /\ users = AddRow(AddRow(EmptyTable, 1, [username |-> admin_username,
                                           password_hash |-> hash_password(admin_password),
                                           role |-> _ROLE_ADMIN]),
                    2, [username |-> "bob", password_hash |-> hash_password("pw1"),
                        role |-> _ROLE_USER])
  /\ nextUserId = 3
  /\ conversations = EmptyTable /\ forms = EmptyTable /\ emails = EmptyTable
  /\ nextConvId = 1 /\ nextEmailId = 1
  /\ threads = 0 /\ llmCalls = 0 /\ nreq = 0
  /\ req = [c \in Clients |-> Idle] /\ resp = Started /\ merge = NoMerge
  /\ settings = Configured("dev")
  /\ session = [c \in Clients |-> IF c = "c1" THEN 1 ELSE 2]

\* well-formed bodies of the form requests
OwnerPayloads == {Pair("user_comment", JStr(<<"a">>), "cause", JStr(<<"a">>))}

NextOwners ==
  \/ \E c \in Clients, id \in CaseThreadIds, e \in CaseEmails : summarize_email(c, id, e)
  \/ \E c \in Clients, reply \in CaseReplies : summarize_email_reply(c, reply)
  \/ \E c \in Clients, k \in CaseIds : get_or_create_for_case(c, k)
  \/ \E c \in Clients, reply \in CaseReplies : get_or_create_for_case_reply(c, reply)
  \/ \E c \in Clients, id \in ThreadIds : get_form(c, id)
  \/ \E c \in Clients, id \in ThreadIds, p \in OwnerPayloads : update_form(c, id, p)
  \/ \E c \in Clients, id \in ThreadIds : form_ai_edit(c, id, JStr(<<"a">>))
  \/ \E c \in Clients, reply \in CaseReplies : form_ai_edit_reply(c, reply)
  \/ \E c \in Clients, id \in ThreadIds, p \in OwnerPayloads : chat_ui_post(c, id, p)
  \/ \E c \in Clients, reply \in CaseReplies : chat_ui_post_reply(c, reply)
  \/ \E c \in Clients, id \in ThreadIds : save_summary(c, id, TRUE)
  \/ \E c \in Clients, id \in ThreadIds : save_case(c, id, TRUE)
  \/ \E c \in Clients, sid \in CaseIds, id \in CaseThreadIds :
       \E world \in LinkWorlds(sid) : summarize_case(c, sid, id, world)
  \/ \E c \in Clients, reply \in CaseReplies, outcome \in FormOutcomes :
       summarize_case_reply(c, reply, outcome)

SpecOwners == InitOwners /\ [][NextOwners]_vars

(* ---------- specification: admins deleting users concurrently ---------- *)
NextAdmins ==
  \/ \E c \in Clients, u \in Usernames, p \in {"pw"} : login(c, u, p)
  \/ \E c \in Clients, u \in Usernames, r \in {"user", "admin"} :
       admin_create_user(c, u, "pw", r)
  \/ \E c \in Clients, t \in 1..MaxUsers : delete_user_begin(c, t)
  \/ \E c \in Clients : delete_user_commit(c)

SpecAdmins == InitDelete /\ [][NextAdmins]_vars

(* ------ specification: an LLM service that answers on another thread --- *)
\* the thread ids of the answers: none, a thread the service has opened
\* (whatever thread the call named), or a new one
MovedReplies ==
  {Failure} \cup
  {Answer(id, p) : id \in {""} \cup Opened \cup
                          (IF threads < MaxThreads THEN {ThreadName[threads + 1]} ELSE {}),
                   p \in {NoParsed, Parsed(Single("cause", JStr(<<"a">>)))}}

\* summarize_email answered by such a service
summarize_email_moved(c, reply) ==
  /\ req[c].pc = "chat"
  /\ reply \in MovedReplies
  /\ summarize_email_answer(c, reply)

NextMoved ==
  \/ \E c \in Clients, id \in {""} \cup ThreadIds, e \in CaseEmails : summarize_email(c, id, e)
  \/ \E c \in Clients, reply \in CaseReplies : summarize_email_moved(c, reply)
  \/ \E c \in Clients, id \in ThreadIds : get_form(c, id)

SpecMoved == InitCase /\ [][NextMoved]_vars

(* ------------- specification: linking conversations to summaries ------- *)
LinkIds == 1..MaxLinks
\* the administrator, logged in on both clients, has summarized one email:
\* a conversation on thread t1 without a linked record, with its form
InitLink ==
  /\ users = AddRow(EmptyTable, 1, [username |-> admin_username,
                                    password_hash |-> hash_password(admin_password),
                                    role |-> _ROLE_ADMIN])
  /\ nextUserId = 2
  /\ conversations = AddRow(EmptyTable, 1, NewConversation(1, ThreadName[1], "mail", NoCase))
  /\ forms = AddRow(EmptyTable, 1, NewForm)
  /\ emails = AddRow(EmptyTable, 1, NewEmail(1, <<"hello">>))
  /\ nextConvId = 2 /\ nextEmailId = 2
  /\ threads = 1 /\ llmCalls = 0 /\ nreq = 0
  /\ req = [c \in Clients |-> Idle] /\ resp = Started /\ merge = NoMerge
  /\ settings = Configured("dev")
  /\ session = [c \in Clients |-> 1]

NextLink ==
  \/ \E c \in Clients, id \in CaseThreadIds, e \in CaseEmails : summarize_email(c, id, e)
  \/ \E c \in Clients, reply \in CaseReplies : summarize_email_reply(c, reply)
  \/ \E c \in Clients, k \in LinkIds : get_or_create_for_case(c, k)
  \/ \E c \in Clients, reply \in CaseReplies : get_or_create_for_case_reply(c, reply)
  \/ \E c \in Clients, sid \in LinkIds, id \in {""} \cup ThreadIds :
       \E world \in LinkWorlds(sid) : summarize_case(c, sid, id, world)
  \/ \E c \in Clients, reply \in CaseReplies, outcome \in FormOutcomes :
       summarize_case_reply(c, reply, outcome)

SpecLink == InitLink /\ [][NextLink]_vars

(* ------------------- accounts and identity: the claims ----------------- *)
AdminExists == \E i \in DOMAIN users : users[i].role = _ROLE_ADMIN

\* C1: after every delete-user operation issued by an admin (one that passed
\* the admin-required resolution), whether it deleted the target or refused,
\* at least one user with role admin exists.
C1_AdminRemainsAfterDelete ==
  (resp.op = "delete_user" /\ resp.status \notin {401, 403}) => AdminExists

\* an admin has deleted another admin
C1_Witness ==
  resp.op = "delete_user" /\ resp.status = 303 /\ resp.out = _ROLE_ADMIN

\* C2: a request to any /api/* route made without a session holding a user
\* id is answered with 401 and the logic of the handler is not executed.
C2_ApiNeedsSession ==
  (resp.path = "api" /\ resp.sess = NoUser) => (resp.status = 401 /\ ~resp.ran)

C4_DeletedUserRejected ==
  (resp.path = "api" /\ resp.sess # NoUser /\ ~resp.known) => resp.status = 401

(* ------------------- the form of a conversation: claims ---------------- *)
IncludeFlags == {"include_summary", "include_cause", "include_action", "include_body"}

\* the keys of the model output that stand for a form field
CandidateKeys(field) ==
  CASE field = "summary" -> {pleasanter_case_summary_column, "summary", "overview", "DescriptionA"}
    [] field = "cause" -> {pleasanter_case_cause_column, "cause", "DescriptionB"}
    [] field = "action" -> {pleasanter_case_action_column, "action", "solution", "DescriptionC"}
    [] OTHER -> {pleasanter_case_body_column, "body", "details", "Body"}

\* a value that is neither null nor a blank text
NonBlank(v) == v # JNull /\ ~(IsStr(v) /\ \A i \in 1..Len(v.s) : v.s[i] = " ")

\* one of the field's candidate keys is present with a non-blank value
Present(field, parsed) ==
  \E k \in CandidateKeys(field) \cap DOMAIN parsed : NonBlank(parsed[k])

\* C5: applying a parsed model object to a form changes only the fields of
\* summary/cause/action/body for which a candidate key is present with a
\* non-blank value: a field whose candidate keys are all absent or blank
\* keeps its value, and the four include-flags keep theirs, on every path
\* that merges model output.
C5_MergeTouchesOnlyPresentFields ==
  merge.op # "none" =>
    /\ \A field \in Fields :
         ~Present(field, merge.parsed) => merge.after[field] = merge.before[field]
    /\ \A flag \in IncludeFlags : merge.after[flag] = merge.before[flag]

\* the first n characters of a text, the whole text when it is shorter
FirstChars(s, n) == [i \in 1..(IF Len(s) <= n THEN Len(s) ELSE n) |-> s[i]]

\* what the merge picked for a field
Picked(field) ==
  LET keys == CASE field = "summary" -> summary_keys
                [] field = "cause" -> cause_keys
                [] field = "action" -> action_keys
                [] OTHER -> body_keys
  IN IF merge.variant = "service" THEN pick(keys, merge.parsed) ELSE _pick(keys, merge.parsed)

\* C6: when the merge writes summary, cause or action from parsed model
\* output, the stored value is the first 200 characters of the picked value
\* (all of it when it has at most 200); when it writes body, the stored
\* value is the picked value as it is, whatever its length.
C6_MergeTruncatesTo200 ==
  merge.op # "none" =>
    /\ \A field \in {"summary", "cause", "action"} :
         Picked(field).has => merge.after[field] = FirstChars(Picked(field).value, 200)
    /\ Picked("body").has => merge.after.body = Picked("body").value

\* a merge has cut a summary of more than 200 characters and has stored a
\* body of more than 200 characters in full
C6_Witness ==
  /\ merge.op # "none"
  /\ Picked("summary").has /\ Len(Picked("summary").value) > 200
  /\ Len(merge.after.summary) = 200
  /\ Picked("body").has /\ Len(merge.after.body) > 200

\* C7: in every reachable state every form has a summary, a cause and an
\* action of at most 200 characters each.
C7_FormTextsWithin200 ==
  \A k \in DOMAIN forms :
    /\ Len(forms[k].summary) <= 200
    /\ Len(forms[k].cause) <= 200
    /\ Len(forms[k].action) <= 200

(* ------------------- creating a conversation: claims ------------------- *)
GetOrCreate == {"get_or_create_for_case", "_get_or_create_conversation_for_case"}
Summarize == {"summarize_email", "api_summarize_email"}

\* the conversations of a user that are linked to a record
LinkedTo(user_id, case_id) ==
  {k \in DOMAIN conversations : /\ conversations[k].user_id = user_id
                                /\ conversations[k].pleasanter_case_result_id = case_id}
\* the conversations of a user on a thread
OnThread(user_id, tid) ==
  {k \in DOMAIN conversations : /\ conversations[k].user_id = user_id
                                /\ conversations[k].dify_conversation_id = tid}

\* in this step a get-or-create call of client c for case_id arrives: it is
\* answered at once, or it goes to the LLM service
Arrives(c, case_id) ==
  /\ req[c].pc # "chat"
  /\ \/ /\ req' = req
        /\ resp'.client = c /\ resp'.op \in GetOrCreate /\ resp'.arg = case_id
     \/ /\ req'[c].pc = "chat"
        /\ req'[c].op \in GetOrCreate /\ req'[c].arg = case_id

\* C8: get-or-create for a linked record is idempotent in sequence: a call
\* for a (user, case id) that has its conversation returns that
\* conversation, adds no conversation and no form, and makes no chat call.
C8_GetOrCreateIdempotent ==
  [][\A c \in Clients, case_id \in CaseIds, k \in DOMAIN conversations :
       (/\ Arrives(c, case_id)
        /\ session[c] \in DOMAIN users
        /\ k \in LinkedTo(session[c], case_id))
       => /\ req' = req
          /\ resp'.status = 200 /\ resp'.out.conv = k
          /\ conversations' = conversations /\ forms' = forms
          /\ llmCalls' = llmCalls]_vars

\* a second call has returned the conversation that the first one, which
\* made the one chat call there was, created
C8_Witness ==
  /\ resp.op \in GetOrCreate /\ resp.status = 200
  /\ "found" \in DOMAIN resp.out
  /\ resp.out.conv \in LinkedTo(resp.sess, resp.arg)
  /\ llmCalls = 1

\* two get-or-create calls of one user for one case id overlapped: neither
\* found a conversation, and the LLM service gave each a thread
Overlapped(c, d, ops) ==
  /\ c # d
  /\ req[c].pc = "done" /\ req[d].pc = "done"
  /\ req[c].op \in ops /\ req[d].op \in ops
  /\ req[c].sess = req[d].sess
  /\ req[c].saw = NoConv /\ req[d].saw = NoConv
  /\ req[c].tid # "" /\ req[d].tid # ""

\* C9: when two get-or-create calls for the same (user, case id) run
\* concurrently, both seeing no row before either inserts, both succeed,
\* one conversation exists for the pair, and neither caller gets a
\* duplicate-key failure.
C9_ConcurrentGetOrCreateConverges ==
  \A c, d \in Clients :
    (Overlapped(c, d, GetOrCreate) /\ req[c].arg = req[d].arg)
    => /\ req[c].status = 200 /\ req[d].status = 200
       /\ Cardinality(LinkedTo(req[c].sess, req[c].arg)) = 1

\* C10: when two summarize-email calls of one user concurrently try to
\* create the conversation of the same (user, thread id), the one that hits
\* the unique constraint reads the existing row and succeeds: the pair has
\* one conversation with one form, and each call has stored its email on it.
C10_ConcurrentSummarizeRecovers ==
  \A c, d \in Clients :
    (Overlapped(c, d, Summarize) /\ req[c].tid = req[d].tid)
    => /\ req[c].status = 200 /\ req[d].status = 200
       /\ \E k \in DOMAIN conversations :
            /\ OnThread(req[c].sess, req[c].tid) = {k}
            /\ k \in DOMAIN forms
            /\ req[c].email # req[d].email
            /\ \A e \in {req[c].email, req[d].email} :
                 e \in DOMAIN emails /\ emails[e].conversation_id = k

(* ------------------- the record-system workflow: claims ---------------- *)
\* two summarize_case requests of one user for one summary id overlapped:
\* neither found a conversation, and the LLM service gave each a thread
CaseOverlapped(c, d) ==
  /\ c # d
  /\ req[c].pc = "done" /\ req[d].pc = "done"
  /\ req[c].op = "summarize_case" /\ req[d].op = "summarize_case"
  /\ req[c].sess = req[d].sess /\ req[c].arg = req[d].arg
  /\ req[c].saw = NoConv /\ req[d].saw = NoConv
  /\ req[c].tid # "" /\ req[d].tid # ""

\* C11: when two summarize-case calls of one user for one summary id run
\* concurrently and both find no conversation, neither fails, one
\* conversation exists for (user, summary id), it has its form, and only one
\* of the two requests has inserted a FormState: the one that lost the
\* insert race does not replace the form the winner created.
C11_ConcurrentSummarizeCaseKeepsForm ==
  \A c, d \in Clients :
    CaseOverlapped(c, d)
    => /\ req[c].status = 200 /\ req[d].status = 200
       /\ \E k \in DOMAIN conversations :
            LinkedTo(req[c].sess, req[c].arg) = {k} /\ k \in DOMAIN forms
       /\ ~(req[c].inserted_form /\ req[d].inserted_form)

\* a row that summarize-case is to store: a body and an integer mail id
Storable(it) == _extract_mail_body(it) # <<>> /\ it.ResultId # NotSet

\* the second of two summarize_case runs in sequence: d found the
\* conversation that c had created, both got the same mail rows, and the LLM
\* service answered d
SecondRun(c, d) ==
  /\ c # d
  /\ req[c].pc = "done" /\ req[d].pc = "done"
  /\ req[c].op = "summarize_case" /\ req[d].op = "summarize_case"
  /\ req[c].sess = req[d].sess /\ req[c].arg = req[d].arg
  /\ req[c].status = 200 /\ req[c].saw = NoConv
  /\ req[d].saw = req[c].conv
  /\ req[d].items = req[c].items
  /\ req[d].tid # ""

\* C12: the second of two summarize-case runs in sequence for one user and
\* summary id, with the same mail rows both times, succeeds with
\* emails_stored = 0 and emails_total = the number of de-duplicated rows.
C12_SecondRunStoresNothing ==
  \A c, d \in Clients :
    SecondRun(c, d)
    => /\ req[d].status = 200
       /\ req[d].stored = 0
       /\ req[d].total = Len(Dedup(req[d].items, {}))

\* C13: when summarize-case has succeeded for a (user, summary id) without a
\* conversation, every mail row it considered that has a body and an integer
\* mail id is an Email row of the new conversation, and emails_stored is the
\* number of those rows.
C13_NewConversationGetsItsEmails ==
  \A c \in Clients :
    (/\ resp.client = c /\ resp.op = "summarize_case" /\ resp.status = 200
     /\ req[c].pc = "done" /\ req[c].op = "summarize_case" /\ req[c].saw = NoConv)
    => /\ \A i \in 1..Len(req[c].items) :
            Storable(req[c].items[i])
            => \E e \in DOMAIN emails :
                 /\ emails[e].pleasanter_mail_result_id = req[c].items[i].ResultId
                 /\ emails[e].conversation_id = req[c].conv
       /\ req[c].stored =
            Cardinality({i \in 1..Len(req[c].items) : Storable(req[c].items[i])})

\* C14: no operation deletes or updates an Email row or deletes a
\* Conversation row: a row that exists in a state exists in the next state,
\* an Email with the same raw and cleaned text, also when the step is a
\* delete-user operation
C14_RowsAreNeverDeleted ==
  [][/\ \A e \in DOMAIN emails :
          /\ e \in DOMAIN emails'
          /\ emails'[e].raw_text = emails[e].raw_text
          /\ emails'[e].cleaned_text = emails[e].cleaned_text
     /\ \A k \in DOMAIN conversations : k \in DOMAIN conversations']_vars

\* a scope that client c has left
Left(c) == req[c].pc = "scope" /\ req[c].at = "exit"

\* C15: a scope that was left has closed its session exactly once; if
\* nothing was raised inside, the session was committed and not rolled
\* back; if the body or the commit raised, the session was rolled back once,
\* not committed, and the exception raised is the one that leaves the scope;
\* and a scope that has not been left has its session open, never closed
C15_ScopeCommitsOrRollsBackAndCloses ==
  \A c \in Clients :
    req[c].pc = "scope"
    => IF Left(c)
       THEN /\ req[c].closes = 1 /\ ~req[c].open
            /\ req[c].raised = req[c].thrown
            /\ IF req[c].thrown = NoException
               THEN req[c].commits = 1 /\ req[c].rollbacks = 0
               ELSE req[c].commits = 0 /\ req[c].rollbacks = 1
       ELSE req[c].closes = 0 /\ req[c].open

\* one scope was left after its commit, another after its commit raised,
\* and the row of the first is in the table
C15_Witness ==
  \E c, d \in Clients :
    /\ Left(c) /\ req[c].thrown = NoException
    /\ Left(d) /\ req[d].thrown = "IntegrityError" /\ req[d].part = "commit"
    /\ UsersNamed(users, "bob") # {}

\* a request of client c that the middleware has answered
Sent(c) == req[c].pc = "mw" /\ req[c].at = "sent"

\* C19: the response to a request carries the X-Request-ID header with the
\* id generated for that request, whether the handler returned a response,
\* raised an HTTP error or raised an exception nothing handles; in the last
\* case the response is a 500 whose JSON body has that id as request_id; and
\* no two answered requests have the same id
C19_ResponseCarriesRequestId ==
  \A c \in Clients :
    Sent(c)
    => /\ req[c].response.x_request_id = req[c].request_id
       /\ req[c].outcome = "exception"
          => /\ req[c].response.status_code = 500
             /\ req[c].response.content.request_id = req[c].request_id
       /\ \A d \in Clients \ {c} : Sent(d) => req[d].request_id # req[c].request_id

\* one request ended with an uncaught exception and another, in flight at
\* the same time, with an HTTP error
C19_Witness ==
  \E c, d \in Clients :
    /\ Sent(c) /\ req[c].outcome = "exception"
    /\ Sent(d) /\ req[d].outcome = "http_error" /\ req[d].response.status_code = 404
    /\ req[d].response.content.request_id = req[d].request_id

\* the operations of the record-system service
RecordOperations ==
  {"list_summaries", "lookup_summary", "summarize_case", "save_summary", "save_case"}

\* a setting the operation op needs is missing: the base URL or the API key
\* for every operation, the summary site for all but save-case, the mail
\* and the case site for summarize-case
MissingFor(op) ==
  \/ ~settings.pleasanter_base_url
  \/ ~settings.pleasanter_api_key
  \/ op # "save_case" /\ settings.pleasanter_summary_site_id = NotSet
  \/ op = "summarize_case" /\ settings.pleasanter_mail_site_id = NotSet
  \/ op = "summarize_case" /\ settings.pleasanter_case_site_id = NotSet

\* C16: an operation of the record-system service that runs for a known
\* user while a setting it needs is missing fails with 400 and has issued
\* no call to the record system
C16_ReadinessBeforeAnyCall ==
  /\ resp.op \in RecordOperations /\ resp.ran /\ MissingFor(resp.op)
  => resp.status = 400 /\ resp.out.calls = <<>>

\* C17: a summarize-case response that is the 502 of a failed record-system
\* call (its detail names the settings to check) has the pleasanter debug
\* content in its detail exactly when the environment tag is dev,
\* development or local
C17_DebugOnlyInDevelopment ==
  /\ resp.op = "summarize_case" /\ resp.status = 502 /\ "checks" \in resp.out.detail
  => ("pleasanter" \in resp.out.detail <=> _dev_debug_enabled)

\* conversation k was linked to a summary record by summarize-case: it
\* carries a linked id and is not the conversation of a case record
SummaryLinked(k) ==
  /\ conversations[k].pleasanter_case_result_id # NoCase
  /\ conversations[k].title # "case"

\* C18: a save-case request for a conversation that summarize-case linked
\* to a summary record fails with 400 and issues no update to the record
\* system
C18_SaveCaseRefusesSummaryConversations ==
  /\ resp.op = "save_case" /\ resp.ran
  /\ get_by_dify_id(conversations, resp.sess, resp.arg) # NoConv
  => LET k == get_by_dify_id(conversations, resp.sess, resp.arg)
     IN SummaryLinked(k) => resp.status = 400 /\ resp.out.calls = <<>>

\* C20: the email sanitizer is idempotent: a text that has been through it
\* twice is the text the first pass produced
C20_CleanIsIdempotent ==
  \A c \in Clients :
    req[c].pc = "clean" /\ req[c].times = 2 => req[c].text = req[c].once

(* ------------------------ the JSON extractor: claims ------------------- *)
\* C21: whenever decoding the whole trimmed answer does not yield an object,
\* also when it yields a value that is not an object, the extractor returns
\* what the brace-delimited substring decodes to, if that is an object, and
\* nothing otherwise
C21_FallsBackToBraces ==
  \A c \in Clients :
    req[c].pc = "json"
    => LET s == strip(req[c].answer)
           whole == json_loads(s)
           m == brace_search(s)
       IN s # <<>> /\ ~(whole.ok /\ whole.v.t = "dict")
          => req[c].parsed = IF m = <<>> THEN NoParsed ELSE dict_or_none(json_loads(m))

(* --------------------- chat-UI write and its flags: claims ------------- *)
\* the include-flag of a form field
FlagOf(field) ==
  CASE field = "summary" -> "include_summary"
    [] field = "cause" -> "include_cause"
    [] field = "action" -> "include_action"
    [] OTHER -> "include_body"

\* C22: when a chat-UI write (service or JSON route) goes to the LLM service,
\* the form it has built the prompt from has, for each of
\* summary/cause/action/body, the include-flag set exactly when the key is
\* present in the request body, whatever its value; a present text has
\* overwritten the field, and an absent key has left the field as it was
C22_IncludeFlagFollowsPresence ==
  [][\A c \in Clients, id \in IdInputs, p \in FormPayloads :
       (chat_ui_post(c, id, p) \/ api_chat_ui(c, id, p)) /\ req'[c].pc = "chat"
       => \A field \in Fields :
            /\ req'[c].mine[FlagOf(field)] = (field \in DOMAIN p)
            /\ field \in DOMAIN p /\ IsStr(p[field])
               => req'[c].mine[field] = p[field].s
            /\ field \notin DOMAIN p
               => req'[c].mine[field] = req'[c].loaded[field]]_vars

(* ------------------- conversations of another user: claims ------------- *)
\* user u has a conversation whose thread id is id
OwnsThread(u, id) ==
  \E k \in DOMAIN conversations :
    conversations[k].user_id = u /\ conversations[k].dify_conversation_id = id

\* the thread id belongs to a conversation of another user and to none of u
OnlyOfOthers(u, id) ==
  /\ ~OwnsThread(u, id)
  /\ \E v \in DOMAIN users \ {u} : OwnsThread(v, id)

\* the Conversation, FormState and Email rows of user u
RowsOf(u) ==
  LET mine == {k \in DOMAIN conversations : conversations[k].user_id = u}
  IN [conversations |-> [k \in mine |-> conversations[k]],
      forms |-> [k \in mine \cap DOMAIN forms |-> forms[k]],
      emails |-> [m \in {m \in DOMAIN emails : emails[m].conversation_id \in mine}
                    |-> emails[m]]]

\* the operations that take the thread id of an existing conversation
ThreadOperations ==
  {"get_form", "update_form", "form_ai_edit", "chat_ui_post", "save_summary", "save_case"}

\* what the last response says about the request of a user on a thread id
\* that belongs only to someone else, and what a successful get-form returns
OthersThreadIsNotFound ==
  /\ resp.op \in ThreadOperations /\ resp.ran /\ OnlyOfOthers(resp.sess, resp.arg)
     => resp.status = 404
  /\ resp.op = "get_form" /\ resp.status = 200
     => \E k \in DOMAIN forms :
          /\ conversations[k].user_id = resp.sess
          /\ conversations[k].dify_conversation_id = resp.arg
          /\ resp.out = forms[k]

\* a step changes the rows of a user only as the response to a request of
\* that user
OnlyOwnRowsChange ==
  \A u \in DOMAIN users :
    RowsOf(u)' # RowsOf(u) => resp'.sess = u /\ resp'.ran /\ resp'.status = 200

C24_AdminRemainsUnderConcurrency ==
  resp.op = "delete_user" /\ resp.path = "transaction" /\ resp.status = 303
  => admin_count(users) >= 1

(* ---------------------- refused deletes: claims ------------------------ *)
\* delete_user on the user table as it is, for every caller and target:
\* the acting user as target is refused with 400, a missing target with
\* 404, the only admin with 400, and a refusal returns the table as it was
RefusedDeleteKeepsTable ==
  \A me \in 1..(MaxUsers + 1), target \in 1..(MaxUsers + 1) :
    LET r == delete_user(users, me, target)
    IN /\ target = me => r.status = 400
       /\ target # me /\ target \notin DOMAIN users => r.status = 404
       /\ /\ target # me /\ target \in DOMAIN users
          /\ users[target].role = _ROLE_ADMIN /\ admin_count(users) = 1
          => r.status = 400
       /\ r.status # 0 => r.users = users

\* a delete-user request that was not answered with the redirect of a
\* performed delete has left the user rows as they were
RefusedDeleteStep ==
  \A c \in Clients, target \in 1..MaxUsers :
    admin_delete_user(c, target) /\ resp'.status # 303 => users' = users

\* C25: a delete-user call that fails (the target is the acting admin: 400;
\* the target does not exist: 404; the target is the only admin: 400) leaves
\* the set of users, their roles and their password hashes unchanged
C25_RefusedDeleteChangesNothing ==
  []RefusedDeleteKeepsTable /\ [][RefusedDeleteStep]_vars

\* with two users in the table, an admin's delete of their own account was
\* refused
C25_Witness ==
  /\ resp.op = "delete_user" /\ resp.ran /\ resp.status = 400 /\ resp.arg = resp.sess
  /\ Cardinality(DOMAIN users) = 2

(* ------------- mail rows of an existing conversation: claims ----------- *)
\* C26: when summarize-case has run on an existing conversation linked to
\* the summary and the LLM service has answered, the request succeeds (the
\* commit does not violate the uniqueness of the external mail id),
\* emails_stored is at most emails_total, and each mail row with a body and
\* an integer mail id is one Email row
C26_MailRowsAddedOnce ==
  \A c \in Clients :
    (/\ req[c].pc = "done" /\ req[c].op = "summarize_case"
     /\ req[c].saw \in DOMAIN conversations
     /\ conversations[req[c].saw].pleasanter_case_result_id = req[c].arg
     /\ req[c].tid # "")
    => /\ req[c].status = 200
       /\ req[c].stored <= req[c].total
       /\ \A i \in 1..Len(req[c].items) :
            Storable(req[c].items[i])
            => Cardinality({e \in DOMAIN emails :
                 emails[e].pleasanter_mail_result_id = req[c].items[i].ResultId}) = 1

(* ------------------ a failed call to the LLM service: claims ----------- *)
\* the operations that call the LLM service on behalf of a form
LlmOperations == {"chat_ui_post", "form_ai_edit", "summarize_email", "summarize_case"}

\* the step in which client c gets the 502 of a failed chat call
LlmFailed(c) ==
  /\ req[c].pc = "chat" /\ req[c].op \in LlmOperations
  /\ req'[c].pc = "done" /\ req'[c].status = 502

\* the step in which the request of client c goes to the LLM service
LlmCalled(c) == req[c].pc # "chat" /\ req'[c].pc = "chat" /\ req'[c].op \in LlmOperations

\* C27: when the chat call of chat-UI write, form-AI-edit, summarize-email
\* or summarize-case fails and the request is answered 502, the users,
\* Conversation, FormState and Email rows are after the request what they
\* were before it: neither the step that sends the call nor the step that
\* answers 502 changes a row
C27_FailedCallPersistsNothing ==
  [][\A c \in Clients : LlmFailed(c) \/ LlmCalled(c) => UNCHANGED dbVars]_vars

\* a chat-UI write whose body changes the form of its conversation was
\* answered 502
C27_Witness ==
  \E c \in Clients :
    /\ req[c].pc = "done" /\ req[c].op = "chat_ui_post" /\ req[c].status = 502
    /\ resp.client = c /\ resp.status = 502
    /\ req[c].saw \in DOMAIN forms
    /\ forms[req[c].saw].include_summary

(* ------------- failures about the request's own inputs: claims --------- *)
\* the record system has the summary with a title, its cases and the mails
RecordsAnswer(world) ==
  /\ world.summary.ok /\ world.summary.items # <<>> /\ world.summary.items[1].Title # ""
  /\ world.cases.ok /\ world.mails.ok
  /\ \E i \in 1..Len(world.cases.items) : world.cases.items[i].ResultId # NotSet

\* the thread id a summarize-case request names is none of the caller's, or
\* is the caller's and linked to another summary id
BadThread(c, sid, id) ==
  LET conv == get_by_dify_id(conversations, session[c], strip_id(id))
  IN /\ strip_id(id) # ""
     /\ \/ conv = NoConv
        \/ conversations[conv].pleasanter_case_result_id \notin {NoCase, sid}

\* C28: a request answered 400 or 404 because of its own inputs or its
\* target conversation has issued no call to the record system and none to
\* the LLM service: here summarize-case naming an unknown thread id, or a
\* thread linked to a different summary id, while the record system has
\* everything the request asks it for
C28_InputErrorsBeforeAnyCall ==
  [][\A c \in Clients, sid \in CaseIds, id \in CaseThreadIds :
       \A world \in Worlds(sid) :
         (/\ summarize_case(c, sid, id, world)
          /\ BadThread(c, sid, id) /\ RecordsAnswer(world)
          /\ resp'.status \in {400, 404})
         => resp'.out.calls = <<>> /\ llmCalls' = llmCalls]_vars

(* -------------- the thread id summarize-email returns: claims ---------- *)
\* C29: after a successful summarize-email the conversation_id it returned
\* is the thread id of a conversation of the caller that has a form (so
\* get-form with it succeeds), also when the call named the thread of an
\* existing conversation and the LLM service answered on another thread
C29_ReturnedThreadIsStored ==
  \A c \in Clients :
    req[c].pc = "done" /\ req[c].op = "summarize_email" /\ req[c].status = 200
    => \E k \in DOMAIN forms :
         /\ conversations[k].user_id = req[c].sess
         /\ conversations[k].dify_conversation_id = req[c].tid

(* ------------------ the linked record of a conversation: claims -------- *)
\* the linked record id of conversation k
LinkOf(convs, k) == convs[k].pleasanter_case_result_id

\* a step leaves every linked record id that is set as it is, and sets one
\* only as the answer to a summarize-case request that named the thread of
\* the conversation, to the summary id of that request
LinkIsWriteOnce ==
  \A k \in DOMAIN conversations \cap DOMAIN conversations' :
    /\ LinkOf(conversations, k) # NoCase
       => LinkOf(conversations', k) = LinkOf(conversations, k)
    /\ LinkOf(conversations, k) = NoCase /\ LinkOf(conversations', k) # NoCase
       => \E c \in Clients :
            /\ req[c].pc = "chat" /\ req[c].op = "summarize_case" /\ req[c].conv = k
            /\ req'[c].pc = "done" /\ req'[c].status = 200
            /\ LinkOf(conversations', k) = req[c].arg

\* summarize-case that names a thread of the caller linked to another
\* summary id is answered 400
MismatchIsRefused ==
  \A c \in Clients, sid \in LinkIds, id \in ThreadIds :
    \A world \in LinkWorlds(sid) :
      LET conv == get_by_dify_id(conversations, session[c], id)
      IN (/\ summarize_case(c, sid, id, world)
          /\ conv # NoConv
          /\ LinkOf(conversations, conv) \notin {NoCase, sid})
         => resp'.status = 400 /\ req'[c] = req[c]

\* a user has at most one conversation per linked record id
OneConversationPerLink ==
  \A j, k \in DOMAIN conversations :
    (/\ j # k /\ conversations[j].user_id = conversations[k].user_id
     /\ LinkOf(conversations, j) # NoCase)
    => LinkOf(conversations, j) # LinkOf(conversations, k)

\* C30: the linked record id of a conversation is write-once: summarize-case
\* with a thread id sets it only on an unlinked conversation, answers 400
\* when the conversation is linked to another summary id, no step changes a
\* linked record id that is set, and in every state a user has at most one
\* conversation per linked record id
C30_LinkIsWriteOnce ==
  []OneConversationPerLink /\ [][LinkIsWriteOnce /\ MismatchIsRefused]_vars

====
